---- MODULE Spec2Model ----
(***************************************************************************)
(* PredictPesa request pipeline: the key-value store behind RedisCache and *)
(* RateLimiter, the three custom middlewares in the order in which         *)
(* create_application installs them, and the route handlers that read or   *)
(* write pipeline state (login, logout, get_current_user).                 *)
(*                                                                         *)
(* One request is one task.  Between two store operations a task touches   *)
(* only its own request context, so an action is one store operation       *)
(* together with the code that follows it up to the next store operation.  *)
(* Every store operation may fail (store unreachable, timeout); a failed   *)
(* operation leaves the store as it was.                                   *)
(***************************************************************************)
EXTENDS Integers, Sequences, FiniteSets, TLC

\* ------------------------------------------------------------------ bounds
NCallers == 3                    \* concurrent callers of RateLimiter.is_allowed
NReq == 2                        \* request tasks that may be in flight at once
MaxRequests == 3                 \* requests accepted in one behaviour
MaxTime == 1                     \* last clock tick explored
RequestsPerMinute == 2           \* settings.rate_limit_requests_per_minute as configured
AccessTokenExpireMinutes == 1    \* settings.access_token_expire_minutes as configured
MaxValue == 4                    \* largest value a counter is taken to
MaxInits == 3                    \* calls of init_redis that create a client
NSessions == 3                   \* uses of the get_db dependency
Horizon == 4                     \* last clock tick of the long-window runs
MaxHits == 4                     \* is_allowed calls in a long-window run
MaxUuids == 3                    \* request ids drawn in a run of the request-id middleware

\* ------------------------------------------------------- program constants
WindowSeconds == 60              \* window of every rate-limit policy row
UserCacheSeconds == 300          \* TTL of user:<id> entries
MarketCreateLimit == 5
StakeCreateLimit == 10
AuthLimit == 5
HTTP_200 == 200
HTTP_401 == 401
HTTP_404 == 404
HTTP_429 == 429
HTTP_500 == 500

\* One clock tick is one rate-limit window.
TickSeconds == WindowSeconds
Ticks(seconds) == seconds \div TickSeconds
AccessTokenSeconds == AccessTokenExpireMinutes * 60

Reqs == 1..NReq
Callers == 1..NCallers

\* ------------------------------------------------------------------- paths
\* A path is the sequence of its segments: "/api/v1/markets/" is
\* <<"api","v1","markets","">>, "/" is <<"">>.
P_Root == <<"">>
P_Health == <<"health">>
P_HealthDetailed == <<"health", "detailed">>
P_Metrics == <<"metrics">>
P_Docs == <<"docs">>
P_Redoc == <<"redoc">>
P_OpenApi == <<"openapi.json">>
P_Register == <<"api", "v1", "auth", "register">>
P_Login == <<"api", "v1", "auth", "login">>
P_Logout == <<"api", "v1", "auth", "logout">>
P_Me == <<"api", "v1", "users", "me">>
P_Markets == <<"api", "v1", "markets", "">>
P_MarketCreate == <<"api", "v1", "markets", "create">>
P_MarketItem == <<"api", "v1", "markets", "m1">>
P_MarketStats == <<"api", "v1", "markets", "m1", "stats">>
P_MarketResolve == <<"api", "v1", "markets", "m1", "resolve">>
P_MarketsBare == <<"api", "v1", "markets">>
P_StakeCreate == <<"api", "v1", "stakes", "create">>
P_StakeItem == <<"api", "v1", "stakes", "s1">>
P_OracleMarket == <<"api", "v1", "oracle", "market", "m1">>
P_YieldFarm == <<"api", "v1", "defi", "stake_yield_farm">>

\* str.startswith for a prefix that ends in "/": the segments of the prefix
\* (without its empty last segment) lead the path and one more segment follows.
StartsWith(path, prefix) ==
    /\ Len(path) >= Len(prefix)
    /\ \A i \in 1..(Len(prefix) - 1) : path[i] = prefix[i]

\* "/<a>/<b>" in path, for the segment names the policy table looks for.
ContainsPair(path, a, b) ==
    \E i \in 1..(Len(path) - 1) : path[i] = a /\ path[i + 1] = b

\* "/<a>/" in path: segment a is followed by another segment.
ContainsDir(path, a) ==
    \E i \in 1..(Len(path) - 1) : path[i] = a

\* ------------------------------------------------------------------ tokens
DemoUserId == "demo-user-id"
DemoEmail == "demo@predictpesa.com"

\* A bearer token is its claims plus whether its signature verifies under
\* settings.secret_key.  exp = 0 stands for a missing exp claim.
NoToken == [signed |-> FALSE, sub |-> "", exp |-> 0]
ForgedToken == [signed |-> FALSE, sub |-> DemoUserId, exp |-> MaxTime + 1]

create_access_token(sub, now_, expires) ==
    [signed |-> TRUE, sub |-> sub, exp |-> now_ + expires]

NoHeader == [scheme |-> "", token |-> NoToken]
BasicHeader == [scheme |-> "basic", token |-> NoToken]
Bearer(t) == [scheme |-> "bearer", token |-> t]

\* AuthMiddleware._extract_token: the token, or {} for None.
ExtractToken(hdr) ==
    IF hdr.scheme = "" THEN {}
    ELSE IF hdr.scheme # "bearer" THEN {}
    ELSE {hdr.token}

EmptyHeaders == [h \in {} |-> 0]

VARIABLES
    now,        \* clock, in ticks
    store,      \* key -> [val, exp]: the keys the store holds and their expiry tick
    req,        \* request task -> its position and request context
    issued,     \* tokens a client has received from login
    arrivals,   \* requests accepted so far
    outage,     \* the store is unreachable
    calls,      \* caller -> its is_allowed call, pending or returned
    last,       \* the last call made to a function on its own, with its result
    redis_client,   \* core/redis.py redis_client: {} for None, else the client
    redis_pool,     \* core/redis.py redis_pool: {} for None, else the pool
    inits,          \* the calls of init_redis so far, and the client that is ready
    sessions        \* use of get_db -> where it stands and what it did to its session

resources == <<redis_client, redis_pool, inits, sessions>>

vars == <<now, store, req, issued, arrivals, outage, calls, last, resources>>

\* ------------------------------------------------------------------- store
Prefix == "predictpesa"

\* RedisCache._make_key
MakeKey(key) == [prefix |-> Prefix, key |-> key]

BlacklistKey(token) == [fam |-> "blacklist", token |-> token]
UserKey(sub) == [fam |-> "user", sub |-> sub]
\* the rate limiter hands its key to the client as it is
RateLimitKey(client, path) == [fam |-> "rate_limit", client |-> client, path |-> path]

Live(k) == k \in DOMAIN store /\ now < store[k].exp

\* a write that sets no TTL: the key outlives every tick explored
StorePut_NoExpire(k, v, ttl) ==
    [x \in DOMAIN store \cup {k} |->
        IF x = k THEN [val |-> v, exp |-> now + ttl + MaxTime + 1] ELSE store[x]]

StorePut(k, v, ttl) ==
    [x \in DOMAIN store \cup {k} |-> IF x = k THEN [val |-> v, exp |-> now + ttl] ELSE store[x]]

StoreDel(k) == [x \in DOMAIN store \ {k} |-> store[x]]

\* In the operations below, up says whether the store answers this call.
\* A store that is unreachable answers none; a reachable one may still fail
\* any single call (timeout, connection reset).
Answers == IF outage THEN {FALSE} ELSE BOOLEAN

\* RedisCache.exists answering True on a store error
CacheExists_FailClosed(key, up) == IF up THEN Live(MakeKey(key)) ELSE TRUE

\* RedisCache.exists
CacheExists(key, up) == IF up THEN Live(MakeKey(key)) ELSE FALSE

\* RedisCache.get: the value in a set, {} for None
CacheGet(key, up) ==
    IF up /\ Live(MakeKey(key)) THEN {store[MakeKey(key)].val} ELSE {}

\* RedisCache.set: the store after the call
CacheSet(key, value, expire, up) ==
    IF up THEN StorePut(MakeKey(key), value, Ticks(expire)) ELSE store

\* RedisCache.delete: the store after the call
CacheDelete(key, up) == IF up THEN StoreDel(MakeKey(key)) ELSE store

\* what set and delete return: True from the try block, False from except
CacheSetReturns(up) == up
CacheDeleteReturns(up) == up

\* a key written without a TTL outlives every tick explored
NoExpiry == MaxTime + 1

\* increment without its except clause: the store's error reaches the caller
CacheIncrement_Unguarded(key, amount, up) ==
    LET k == MakeKey(key)
        value == (IF Live(k) THEN store[k].val ELSE 0) + amount
        exp == IF Live(k) THEN store[k].exp ELSE NoExpiry
    IN IF up
       THEN [raised |-> FALSE, ret |-> {value},
             store |-> [x \in DOMAIN store \cup {k} |->
                          IF x = k THEN [val |-> value, exp |-> exp] ELSE store[x]]]
       ELSE [raised |-> TRUE, ret |-> {}, store |-> store]

\* RedisCache.increment: INCRBY adds to the value and leaves the TTL alone;
\* a missing key counts from 0 and gets no TTL.  ret: the new value in a
\* set, {} for None.
CacheIncrement(key, amount, up) ==
    LET k == MakeKey(key)
        value == (IF Live(k) THEN store[k].val ELSE 0) + amount
        exp == IF Live(k) THEN store[k].exp ELSE NoExpiry
    IN IF up
       THEN [raised |-> FALSE, ret |-> {value},
             store |-> [x \in DOMAIN store \cup {k} |->
                          IF x = k THEN [val |-> value, exp |-> exp] ELSE store[x]]]
       ELSE [raised |-> FALSE, ret |-> {}, store |-> store]

\* RedisCache.expire: EXPIRE answers 1 for a key it found, 0 otherwise
CacheExpire(key, seconds, up) ==
    LET k == MakeKey(key)
    IN IF up /\ Live(k)
       THEN [raised |-> FALSE, ret |-> TRUE,
             store |-> [store EXCEPT ![k].exp = now + Ticks(seconds)]]
       ELSE [raised |-> FALSE, ret |-> FALSE, store |-> store]

\* a counter read and written back in two steps: a second caller reads the
\* value the first has read
CurrentCount_Stale(key) == IF Live(key) THEN store[key].val ELSE 1

\* the count INCR returns
CurrentCount(key) == (IF Live(key) THEN store[key].val ELSE 0) + 1

\* is_allowed admitting one request more than the limit
IsAllowed_OffByOne(key, limit, window, up) ==
    IF ~up THEN [allowed |-> TRUE, remaining |-> limit, store |-> store]
    ELSE LET current_count == CurrentCount(key)
             after == StorePut(key, current_count, Ticks(window))
         IN IF current_count <= limit + 1
            THEN [allowed |-> TRUE, remaining |-> limit - current_count, store |-> after]
            ELSE [allowed |-> FALSE, remaining |-> 0, store |-> after]

\* is_allowed failing closed: a store error rejects the request
IsAllowed_FailClosed(key, limit, window, up) ==
    IF ~up THEN [allowed |-> FALSE, remaining |-> 0, store |-> store]
    ELSE LET current_count == CurrentCount(key)
             after == StorePut(key, current_count, Ticks(window))
         IN IF current_count <= limit
            THEN [allowed |-> TRUE, remaining |-> limit - current_count, store |-> after]
            ELSE [allowed |-> FALSE, remaining |-> 0, store |-> after]

\* RateLimiter.is_allowed: INCR and EXPIRE in one transaction
IsAllowed(key, limit, window, up) ==
    IF ~up THEN [allowed |-> TRUE, remaining |-> limit, store |-> store]
    ELSE LET current_count == CurrentCount(key)
             after == StorePut(key, current_count, Ticks(window))
         IN IF current_count <= limit
            THEN [allowed |-> TRUE, remaining |-> limit - current_count, store |-> after]
            ELSE [allowed |-> FALSE, remaining |-> 0, store |-> after]

\* --------------------------------------------------------- auth middleware
EXEMPT_PATHS ==
    {P_Root, P_Health, P_HealthDetailed, P_Metrics, P_Docs, P_Redoc, P_OpenApi,
     P_Register, P_Login, P_Markets}

\* _is_exempt_path without the exact-match test
AuthIsExemptPath_PatternOnly(path) == StartsWith(path, P_Markets)

AuthIsExemptPath(path) ==
    \/ path \in EXEMPT_PATHS
    \/ StartsWith(path, P_Markets)

RequiresAuth(path) == StartsWith(path, <<"api", "v1", "">>)

\* _validate_token up to the identity lookup: blacklist, signature, claims
TokenRejected(token, up) ==
    \/ CacheExists(BlacklistKey(token), up)
    \/ ~token.signed
    \/ (token.exp # 0 /\ token.exp <= now)
    \/ token.sub = ""
    \/ token.exp = 0

\* _validate_token: what it does before it looks the identity up, in order;
\* a token found on the blacklist is not decoded
ValidateSteps(token, up) ==
    IF CacheExists(BlacklistKey(token), up) THEN <<"exists">> ELSE <<"exists", "decode">>

\* dict.get(k, default) on a decoded payload
ClaimOr(payload, k, default) == IF k \in DOMAIN payload THEN payload[k] ELSE default

\* login_user token_data: the claims of a token that login issued
TokenData(token) ==
    [sub |-> token.sub, email |-> DemoEmail, role |-> "user", is_verified |-> TRUE]

\* the identity with every token taken for a verified one
SynthFromPayload_Verified(payload) ==
    [user_id |-> payload.sub, email |-> ClaimOr(payload, "email", "None"),
     role |-> ClaimOr(payload, "role", "user"), is_verified |-> TRUE]

\* _validate_token: the identity made from the claims; "None" for None
SynthFromPayload(payload) ==
    [user_id |-> payload.sub, email |-> ClaimOr(payload, "email", "None"),
     role |-> ClaimOr(payload, "role", "user"),
     is_verified |-> ClaimOr(payload, "is_verified", FALSE)]

SynthIdentity(token) == SynthFromPayload(TokenData(token))

\* dict.get("user_id"), "" for None
GetUserId(user_data) ==
    IF "user_id" \in DOMAIN user_data THEN user_data.user_id ELSE ""

\* --------------------------------------------------- rate-limit middleware
\* a rate-limit stage that exempts no path
RateLimitIsExemptPath_None(path) == FALSE

RateLimitIsExemptPath(path) == path \in {P_Health, P_HealthDetailed, P_Metrics}

ClientIp == "10.0.0.1"

GetClientId(q) ==
    IF q.user_id # "" THEN <<"user", q.user_id>> ELSE <<"ip", ClientIp>>

\* the table without its test of the method: the rows for writes apply to
\* every request
GetLimitsForPath_AnyMethod(path, method) ==
    IF ContainsPair(path, "markets", "create") THEN <<MarketCreateLimit, WindowSeconds>>
    ELSE IF ContainsPair(path, "stakes", "create") THEN <<StakeCreateLimit, WindowSeconds>>
    ELSE IF ContainsDir(path, "auth") THEN <<AuthLimit, WindowSeconds>>
    ELSE <<RequestsPerMinute \div 2, WindowSeconds>>

GetLimitsForPath(path, method) ==
    IF method \in {"POST", "PUT", "DELETE"}
    THEN IF ContainsPair(path, "markets", "create") THEN <<MarketCreateLimit, WindowSeconds>>
         ELSE IF ContainsPair(path, "stakes", "create") THEN <<StakeCreateLimit, WindowSeconds>>
         ELSE IF ContainsDir(path, "auth") THEN <<AuthLimit, WindowSeconds>>
         ELSE <<RequestsPerMinute \div 2, WindowSeconds>>
    ELSE IF method = "GET"
    THEN IF ContainsDir(path, "markets") THEN <<RequestsPerMinute * 2, WindowSeconds>>
         ELSE <<RequestsPerMinute, WindowSeconds>>
    ELSE <<RequestsPerMinute, WindowSeconds>>

\* ------------------------------------------------------------------ routes
Handler(method, path) ==
    IF method = "GET" /\ path \in {P_Health, P_HealthDetailed, P_Metrics} THEN "health_check"
    ELSE IF method = "POST" /\ path = P_Login THEN "login_user"
    ELSE IF method = "POST" /\ path = P_Logout THEN "logout_user"
    ELSE IF method = "GET" /\ path = P_Me THEN "get_current_user_profile"
    ELSE IF method = "GET" /\ path = P_Markets THEN "list_markets"
    ELSE IF method = "POST" /\ path = P_MarketCreate THEN "create_market"
    ELSE IF method = "DELETE" /\ path = P_MarketItem THEN "delete_market"
    ELSE ""

\* handlers declared with Depends(get_current_user)
NeedsCurrentUser(h) ==
    h \in {"logout_user", "get_current_user_profile", "create_market", "delete_market"}

\* get_current_user that does not look at request.state.user
GetCurrentUser_NoCheck(q) == 0

\* get_current_user: the status it raises, 0 when it returns a user
GetCurrentUser(q) ==
    IF q.user = {} THEN HTTP_401
    ELSE IF q.user_id = "" THEN HTTP_401
    ELSE 0

\* ----------------------------------------------------------- request state
\* trace, rejectedBy, blacklisted, failOpen, count, handler, acted
\* and attempts record what happened to the request; the code does not read
\* them.  attempts: the store calls the logout handler has made.
IdleReq ==
    [pc |-> "idle", method |-> "", path |-> <<>>, hdr |-> NoHeader, creds |-> FALSE,
     user |-> {}, user_id |-> "", request_id |-> "", limit |-> 0, remaining |-> 0,
     token |-> NoToken, status |-> 0, headers |-> EmptyHeaders,
     trace |-> <<>>, rejectedBy |-> "", blacklisted |-> FALSE, failOpen |-> FALSE, count |-> 0,
     handler |-> "", acted |-> FALSE, attempts |-> <<>>]

RequestKinds ==
    {<<"GET", P_Health>>, <<"GET", P_HealthDetailed>>, <<"GET", P_Metrics>>,
     <<"POST", P_Login>>, <<"POST", P_Logout>>, <<"GET", P_Me>>,
     <<"GET", P_Markets>>, <<"POST", P_MarketCreate>>, <<"DELETE", P_MarketItem>>}

\* The Authorization headers tried with each path.  A path that
\* AuthMiddleware exempts is tried with fewer of them: no code reads the
\* header of such a request.
Headers(path) ==
    LET held == {Bearer(t) : t \in issued}
    IN IF path = P_Me THEN {NoHeader, BasicHeader, Bearer(ForgedToken)} \cup held
       ELSE IF path \in {P_Logout, P_MarketCreate} THEN {NoHeader} \cup held
       ELSE IF path \in {P_Health, P_MarketItem} THEN {NoHeader, Bearer(ForgedToken)}
       ELSE {NoHeader}

Sessions == 1..NSessions

\* get_db not entered: no session yet
NoSession == [pc |-> "idle", outcome |-> "", log |-> <<>>, raised |-> ""]

\* The module globals once the lifespan of the application has run
\* init_redis: client 1 on pool 1.  inits.made counts the clients created,
\* inits.ready holds the client of the last init_redis that succeeded, until
\* close_redis has returned.
Started ==
    /\ redis_client = {1}
    /\ redis_pool = {1}
    /\ inits = [made |-> 1, ready |-> {1}]
    /\ sessions = [i \in Sessions |-> NoSession]

\* no call of the limiter on its own, no function called on its own
NoCall ==
    [pc |-> "none", key |-> {}, limit |-> 0, up |-> FALSE, allowed |-> FALSE,
     remaining |-> 0, count |-> 0, at |-> 0]

NoResult == [fn |-> "none"]

Init ==
    /\ now = 0
    /\ store = [k \in {} |-> 0]
    /\ req = [r \in Reqs |-> IdleReq]
    /\ issued = {}
    /\ arrivals = 0
    /\ outage \in BOOLEAN
    /\ calls = [c \in Callers |-> NoCall]
    /\ last = NoResult
    /\ Started

\* ---------------------------------------------------------------- responses
\* An exception that leaves a middleware's dispatch is not seen by the
\* HTTPException handlers, which sit inside the middleware stack; it reaches
\* the handler registered for Exception, which answers 500.  No middleware
\* gets to add a header to that response.
GlobalExceptionHandler(q) ==
    [q EXCEPT !.pc = "done", !.status = HTTP_500, !.headers = EmptyHeaders]

\* The response of the router on its way out: RequestIDMiddleware adds the
\* trace id, RateLimitMiddleware adds its three headers when it checked.
RateLimitHeaders(q) ==
    IF RateLimitIsExemptPath(q.path) THEN EmptyHeaders
    ELSE ("X-RateLimit-Limit" :> RequestsPerMinute)
         @@ ("X-RateLimit-Remaining" :> q.remaining)
         @@ ("X-RateLimit-Reset" :> WindowSeconds)

Respond(q, status) ==
    [q EXCEPT !.pc = "done", !.status = status,
              !.headers = ("X-Request-ID" :> q.request_id) @@ RateLimitHeaders(q)]

LoginUserData ==
    [id |-> DemoUserId, email |-> DemoEmail, first_name |-> "Demo", last_name |-> "User",
     country_code |-> "NG", is_verified |-> TRUE, is_active |-> TRUE, role |-> "user"]

\* ------------------------------------------------------------------- stages
\* get_current_user_profile reads current_user.role.value; get_current_user
\* has put the role there as a plain string, the attribute lookup raises and
\* the error goes to the global handler.
\* RequestIDMiddleware.dispatch and, behind it, the router: the dependencies
\* of the route and its handler up to the handler's first store call.
RouteEnter(q0) ==
    LET q == [q0 EXCEPT !.trace = @ \o <<"request_id", "route">>, !.request_id = "uuid"]
        h == Handler(q.method, q.path)
        in_handler == [q EXCEPT !.handler = h]
    IN IF h = "" THEN Respond(q, HTTP_404)
       ELSE IF NeedsCurrentUser(h) /\ GetCurrentUser(q) # 0
       THEN Respond(q, GetCurrentUser(q))
       ELSE IF h = "login_user"
       THEN IF q.creds
            THEN [in_handler EXCEPT !.pc = "login_set",
                    !.token = create_access_token(DemoUserId, now, Ticks(AccessTokenSeconds))]
            ELSE Respond(in_handler, HTTP_401)
       ELSE IF h = "logout_user" THEN [in_handler EXCEPT !.pc = "logout_set"]
       ELSE IF h = "get_current_user_profile" THEN GlobalExceptionHandler(in_handler)
       ELSE IF NeedsCurrentUser(h) THEN Respond([in_handler EXCEPT !.acted = TRUE], HTTP_200)
       ELSE Respond(in_handler, HTTP_200)

\* RateLimitMiddleware.dispatch up to the rate limiter's store call
RateLimitEnter(q0) ==
    LET q == [q0 EXCEPT !.trace = Append(@, "rate_limit")]
    IN IF RateLimitIsExemptPath(q.path) THEN RouteEnter(q)
       ELSE [q EXCEPT !.pc = "rate_limit"]

\* AuthMiddleware._unauthorized_response: the object dispatch returns
UnauthorizedResponse ==
    [class |-> "HTTPException", status_code |-> HTTP_401,
     headers |-> ("WWW-Authenticate" :> "Bearer")]

\* What the middleware base class does with the value dispatch returned: a
\* response is sent; anything else cannot be called as one and the error
\* goes to the global handler.
SendReturned(q, result) ==
    IF result.class = "Response"
    THEN [q EXCEPT !.pc = "done", !.status = result.status_code, !.headers = result.headers]
    ELSE GlobalExceptionHandler(q)

\* dispatch that builds the 401 but goes on to call_next
AuthReject_NoReturn(q) == RateLimitEnter([q EXCEPT !.rejectedBy = "auth"])

\* AuthMiddleware.dispatch: return self._unauthorized_response()
AuthReject(q) == SendReturned([q EXCEPT !.rejectedBy = "auth"], UnauthorizedResponse)

\* AuthMiddleware.dispatch up to the blacklist lookup
AuthEnter(q0) ==
    LET q == [q0 EXCEPT !.trace = Append(@, "auth")]
    IN IF AuthIsExemptPath(q.path) THEN RateLimitEnter(q)
       ELSE IF ExtractToken(q.hdr) # {} THEN [q EXCEPT !.pc = "auth_exists"]
       ELSE IF RequiresAuth(q.path)
       THEN AuthReject(q)
       ELSE RateLimitEnter(q)

\* The middleware added last is the outermost: a request enters at
\* AuthMiddleware, which calls RateLimitMiddleware, which calls
\* RequestIDMiddleware, which calls the router.
PipelineEnter(q) == AuthEnter(q)

\* ------------------------------------------------------------------ actions
\* The requests in flight are tasks of one event loop and carry no order:
\* req holds them in one fixed arrangement of theirs.
SlotOrders == Permutations(Reqs)

Arrange(f) ==
    CHOOSE g \in {[r \in Reqs |-> f[p[r]]] : p \in SlotOrders} : TRUE

\* A response is handed to the client before the server does anything else.
NoneDone == \A r \in Reqs : req[r].pc # "done"

Arrive(r) ==
    /\ NoneDone
    /\ req[r].pc = "idle"
    /\ \A o \in 1..(r - 1) : req[o].pc # "idle"
    /\ arrivals < MaxRequests
    /\ \E k \in RequestKinds :
         \E h \in Headers(k[2]), c \in (IF k[2] = P_Login THEN BOOLEAN ELSE {FALSE}) :
            req' = Arrange([req EXCEPT ![r] =
                      PipelineEnter([IdleReq EXCEPT !.method = k[1], !.path = k[2],
                                                    !.hdr = h, !.creds = c])])
    /\ arrivals' = arrivals + 1
    /\ UNCHANGED <<now, store, issued, outage, calls, last, resources>>

\* _validate_token: cache.exists(blacklist:<token>), jwt.decode, claim checks
AuthExists(r) ==
    /\ NoneDone
    /\ req[r].pc = "auth_exists"
    /\ \E up \in Answers :
         LET t == req[r].hdr.token
             q == [req[r] EXCEPT !.blacklisted = Live(MakeKey(BlacklistKey(t)))]
         IN req' = Arrange([req EXCEPT ![r] =
              IF TokenRejected(t, up)
              THEN AuthReject(q)
              ELSE [q EXCEPT !.pc = "auth_get"]])
    /\ UNCHANGED <<now, store, issued, arrivals, outage, calls, last, resources>>

\* _validate_token: cache.get(user:<sub>)
AuthGet(r) ==
    /\ NoneDone
    /\ req[r].pc = "auth_get"
    /\ \E up \in Answers :
         LET q == req[r]
             user_data == CacheGet(UserKey(q.hdr.token.sub), up)
         IN req' = Arrange([req EXCEPT ![r] =
              IF user_data # {}
              THEN RateLimitEnter([q EXCEPT !.user = user_data,
                                            !.user_id = GetUserId(CHOOSE u \in user_data : TRUE)])
              ELSE [q EXCEPT !.pc = "auth_set"]])
    /\ UNCHANGED <<now, store, issued, arrivals, outage, calls, last, resources>>

\* _validate_token: cache.set(user:<sub>, synthesized identity, 300)
AuthSet(r) ==
    /\ NoneDone
    /\ req[r].pc = "auth_set"
    /\ \E up \in Answers :
         LET q == req[r]
             user_data == SynthIdentity(q.hdr.token)
         IN /\ store' = CacheSet(UserKey(q.hdr.token.sub), user_data, UserCacheSeconds, up)
            /\ req' = Arrange([req EXCEPT ![r] =
                 RateLimitEnter([q EXCEPT !.user = {user_data},
                                          !.user_id = GetUserId(user_data)])])
    /\ UNCHANGED <<now, issued, arrivals, outage, calls, last, resources>>

\* RateLimitMiddleware: _check_rate_limit, then the rejection or call_next
RateLimitCheck(r) ==
    /\ NoneDone
    /\ req[r].pc = "rate_limit"
    /\ \E up \in Answers :
         LET q == req[r]
             lim == GetLimitsForPath(q.path, q.method)
             res == IsAllowed(RateLimitKey(GetClientId(q), q.path), lim[1], lim[2], up)
             key == RateLimitKey(GetClientId(q), q.path)
             checked == [q EXCEPT !.limit = lim[1], !.remaining = res.remaining,
                                  !.failOpen = ~up,
                                  !.count = IF up THEN CurrentCount(key) ELSE 0]
         IN /\ store' = res.store
            /\ req' = Arrange([req EXCEPT ![r] =
                 IF ~res.allowed
                 THEN GlobalExceptionHandler([checked EXCEPT !.rejectedBy = "rate_limit"])
                 ELSE RouteEnter(checked)])
    /\ UNCHANGED <<now, issued, arrivals, outage, calls, last, resources>>

\* login_user: cache.set(user:<id>, user_data, 300) and the response
LoginSet(r) ==
    /\ NoneDone
    /\ req[r].pc = "login_set"
    /\ \E up \in Answers :
         store' = CacheSet(UserKey(LoginUserData.id), LoginUserData, UserCacheSeconds, up)
    /\ req' = Arrange([req EXCEPT ![r] = Respond(@, HTTP_200)])
    /\ issued' = issued \cup {req[r].token}
    /\ UNCHANGED <<now, arrivals, outage, calls, last, resources>>

\* logout_user with a cache.set that raises on a store error: the handler's
\* except clause answers 500
LogoutSet_Raises(r) ==
    /\ NoneDone
    /\ req[r].pc = "logout_set"
    /\ \E up \in Answers :
         /\ store' = CacheSet(BlacklistKey(req[r].hdr.token), TRUE, AccessTokenSeconds, up)
         /\ req' = Arrange([req EXCEPT ![r] =
                 IF up
                 THEN [@ EXCEPT !.pc = "logout_delete",
                                !.attempts = Append(@, <<"set", BlacklistKey(req[r].hdr.token)>>)]
                 ELSE Respond([@ EXCEPT !.attempts =
                                   Append(@, <<"set", BlacklistKey(req[r].hdr.token)>>)],
                              HTTP_500)])
    /\ UNCHANGED <<now, issued, arrivals, outage, calls, last, resources>>

\* logout_user: cache.set(blacklist:<token>, True, lifetime of an access token)
LogoutSet(r) ==
    /\ NoneDone
    /\ req[r].pc = "logout_set"
    /\ \E up \in Answers :
         /\ store' = CacheSet(BlacklistKey(req[r].hdr.token), TRUE, AccessTokenSeconds, up)
         /\ req' = Arrange([req EXCEPT ![r] =
                 [@ EXCEPT !.pc = "logout_delete",
                           !.attempts = Append(@, <<"set", BlacklistKey(req[r].hdr.token)>>)]])
    /\ UNCHANGED <<now, issued, arrivals, outage, calls, last, resources>>

\* a logout that also clears the rate-limit counter of its client
LogoutDelete_Counter(r) ==
    /\ NoneDone
    /\ req[r].pc = "logout_delete"
    /\ \E up \in Answers :
         /\ store' = [k \in DOMAIN CacheDelete(UserKey(req[r].user_id), up)
                          \ {RateLimitKey(GetClientId(req[r]), req[r].path)} |-> store[k]]
         /\ req' = Arrange([req EXCEPT ![r] =
                 Respond([@ EXCEPT !.acted = TRUE, !.attempts = Append(@, <<"delete", UserKey(req[r].user_id)>>)], HTTP_200)])
    /\ UNCHANGED <<now, issued, arrivals, outage, calls, last, resources>>

\* logout_user: cache.delete(user:<id>) and the response
LogoutDelete(r) ==
    /\ NoneDone
    /\ req[r].pc = "logout_delete"
    /\ \E up \in Answers :
         /\ store' = CacheDelete(UserKey(req[r].user_id), up)
         /\ req' = Arrange([req EXCEPT ![r] =
                 Respond([@ EXCEPT !.acted = TRUE, !.attempts = Append(@, <<"delete", UserKey(req[r].user_id)>>)], HTTP_200)])
    /\ UNCHANGED <<now, issued, arrivals, outage, calls, last, resources>>

\* The response has been sent; the task ends
Complete(r) ==
    /\ req[r].pc = "done"
    /\ req' = Arrange([req EXCEPT ![r] = IdleReq])
    /\ UNCHANGED <<now, store, issued, arrivals, outage, calls, last, resources>>

\* Time passes; the store drops the keys whose TTL has elapsed
Tick ==
    /\ NoneDone
    /\ now < MaxTime
    /\ now' = now + 1
    /\ store' = [k \in {x \in DOMAIN store : store[x].exp > now + 1} |-> store[k]]
    /\ UNCHANGED <<req, issued, arrivals, outage, calls, last, resources>>

Next ==
    \/ \E r \in Reqs : Arrive(r)
    \/ \E r \in Reqs : AuthExists(r)
    \/ \E r \in Reqs : AuthGet(r)
    \/ \E r \in Reqs : AuthSet(r)
    \/ \E r \in Reqs : RateLimitCheck(r)
    \/ \E r \in Reqs : LoginSet(r)
    \/ \E r \in Reqs : LogoutSet(r)
    \/ \E r \in Reqs : LogoutDelete(r)
    \/ \E r \in Reqs : Complete(r)
    \/ Tick

Spec == Init /\ [][Next]_vars

TypeOK ==
    /\ now \in 0..MaxTime
    /\ arrivals \in 0..MaxRequests
    /\ \A r \in Reqs : req[r].status \in {0, HTTP_200, HTTP_401, HTTP_404, HTTP_500}

\* ---------------------------------------- RateLimiter.is_allowed on its own
\* NCallers tasks call is_allowed at once, each with a key and a limit; the
\* calls reach the store in any order, and time may pass between them.
LimiterKeys ==
    {RateLimitKey(<<"ip", ClientIp>>, P_Login), RateLimitKey(<<"ip", ClientIp>>, P_Markets)}

Limits == {RequestsPerMinute \div 2, RequestsPerMinute}

PendingCall(key, limit) == [NoCall EXCEPT !.pc = "pending", !.key = {key}, !.limit = limit]

InitCalls ==
    /\ now = 0
    /\ store = [k \in {} |-> 0]
    /\ req = [r \in Reqs |-> IdleReq]
    /\ issued = {}
    /\ arrivals = 0
    /\ outage \in BOOLEAN
    /\ calls \in [Callers -> {PendingCall(k, l) : k \in LimiterKeys, l \in Limits}]
    /\ last = NoResult
    /\ Started

\* one call of is_allowed: the pipeline runs in the store, the caller gets
\* the decision
IsAllowedCall(c) ==
    /\ calls[c].pc = "pending"
    /\ \E up \in Answers :
         LET key == CHOOSE k \in calls[c].key : TRUE
             res == IsAllowed(key, calls[c].limit, WindowSeconds, up)
         IN /\ store' = res.store
            /\ calls' = [calls EXCEPT ![c] =
                  [@ EXCEPT !.pc = "returned", !.up = up, !.allowed = res.allowed,
                            !.remaining = res.remaining,
                            !.count = IF up THEN CurrentCount(key) ELSE 0,
                            !.at = now]]
    /\ UNCHANGED <<now, req, issued, arrivals, outage, last, resources>>

CallNext ==
    \/ \E c \in Callers : IsAllowedCall(c)
    \/ Tick

CallSpec == InitCalls /\ [][CallNext]_vars

\* ------------------------------------------- the cache methods on their own
\* One function is called at a time with arguments from the sets below;
\* last keeps the call and what came of it.
CacheKeys == {UserKey(DemoUserId), UserKey("other-user-id")}
CacheValues == {0, 2}
CacheExpiries == {WindowSeconds, 2 * WindowSeconds}
Amounts == {1, 2}

InitFn ==
    /\ now = 0
    /\ store = [k \in {} |-> 0]
    /\ req = [r \in Reqs |-> IdleReq]
    /\ issued = {}
    /\ arrivals = 0
    /\ outage \in BOOLEAN
    /\ calls = [c \in Callers |-> NoCall]
    /\ last = NoResult
    /\ Started

\* a call of one of the six methods of the cache: fn, its key, whether the
\* store answered, what the caller got and whether the store changed
CacheResult(fn, key, up, raised, ret, after) ==
    [fn |-> fn, key |-> key, up |-> up, raised |-> raised, ret |-> ret,
     changed |-> after # store]

CacheGetCall ==
    /\ \E key \in CacheKeys, up \in Answers :
         last' = CacheResult("get", key, up, FALSE, CacheGet(key, up), store)
    /\ UNCHANGED <<now, store, req, issued, arrivals, outage, calls, resources>>

CacheSetCall ==
    /\ \E key \in CacheKeys, value \in CacheValues, expire \in CacheExpiries, up \in Answers :
         LET after == CacheSet(key, value, expire, up)
         IN /\ store' = after
            /\ last' = CacheResult("set", key, up, FALSE, CacheSetReturns(up), after)
    /\ UNCHANGED <<now, req, issued, arrivals, outage, calls, resources>>

CacheDeleteCall ==
    /\ \E key \in CacheKeys, up \in Answers :
         LET after == CacheDelete(key, up)
         IN /\ store' = after
            /\ last' = CacheResult("delete", key, up, FALSE, CacheDeleteReturns(up), after)
    /\ UNCHANGED <<now, req, issued, arrivals, outage, calls, resources>>

CacheExistsCall ==
    /\ \E key \in CacheKeys, up \in Answers :
         last' = CacheResult("exists", key, up, FALSE, CacheExists(key, up), store)
    /\ UNCHANGED <<now, store, req, issued, arrivals, outage, calls, resources>>

CacheIncrementCall ==
    /\ \E key \in CacheKeys, amount \in Amounts, up \in Answers :
         LET res == CacheIncrement(key, amount, up)
         IN /\ \A v \in res.ret : v <= MaxValue
            /\ store' = res.store
            /\ last' = CacheResult("increment", key, up, res.raised, res.ret, res.store)
    /\ UNCHANGED <<now, req, issued, arrivals, outage, calls, resources>>

CacheExpireCall ==
    /\ \E key \in CacheKeys, seconds \in CacheExpiries, up \in Answers :
         LET res == CacheExpire(key, seconds, up)
         IN /\ store' = res.store
            /\ last' = CacheResult("expire", key, up, res.raised, res.ret, res.store)
    /\ UNCHANGED <<now, req, issued, arrivals, outage, calls, resources>>

FnNext ==
    \/ CacheGetCall
    \/ CacheSetCall
    \/ CacheDeleteCall
    \/ CacheExistsCall
    \/ CacheIncrementCall
    \/ CacheExpireCall
    \/ Tick

FnSpec == InitFn /\ [][FnNext]_vars

\* -------------------------------------- functions of the request on their own
\* The functions below read the request and the settings, not the store.
\* A behaviour makes one call.
\* _get_limits_for_path on a method and a path
Methods == {"GET", "POST", "PUT", "DELETE", "PATCH", "HEAD", "OPTIONS"}

PolicyPaths ==
    {P_Root, P_Docs, P_Register, P_Login, P_Logout, P_Me, P_Markets, P_MarketsBare,
     P_MarketCreate, P_MarketItem, P_MarketStats, P_MarketResolve, P_StakeCreate,
     P_StakeItem, P_OracleMarket, P_YieldFarm}

GetLimitsCall ==
    /\ last = NoResult
    /\ \E method \in Methods, path \in PolicyPaths :
         LET lim == GetLimitsForPath(path, method)
         IN last' = [fn |-> "limits", method |-> method, path |-> path,
                     limit |-> lim[1], window |-> lim[2]]
    /\ UNCHANGED <<now, store, req, issued, arrivals, outage, calls, resources>>

\* _get_client_id and the key of the counter, on the text of the headers.
\* A text is the sequence of its characters; addresses and path segments
\* are one character long.  {} stands for a header that is not sent and for
\* a connection without a peer address.
RECURSIVE SplitFirst(_)
\* forwarded_for.split(",")[0]
SplitFirst(text) ==
    IF text = <<>> \/ Head(text) = "," THEN <<>>
    ELSE <<Head(text)>> \o SplitFirst(Tail(text))

RECURSIVE LStrip(_)
LStrip(text) ==
    IF text # <<>> /\ Head(text) = " " THEN LStrip(Tail(text)) ELSE text

RECURSIVE RStrip(_)
RStrip(text) ==
    IF text # <<>> /\ text[Len(text)] = " " THEN RStrip(SubSeq(text, 1, Len(text) - 1))
    ELSE text

\* str.strip
Strip(text) == RStrip(LStrip(text))

\* _get_client_ip
get_client_ip(c) ==
    IF c.forwarded_for # {} /\ c.forwarded_for # {<<>>}
    THEN Strip(SplitFirst(CHOOSE t \in c.forwarded_for : TRUE))
    ELSE IF c.real_ip # {} /\ c.real_ip # {<<>>}
    THEN CHOOSE t \in c.real_ip : TRUE
    ELSE IF c.peer # {} THEN CHOOSE t \in c.peer : TRUE
    ELSE <<"unknown">>

\* _get_client_id
get_client_id(c) ==
    IF c.user_id # <<>> THEN <<"user", ":">> \o c.user_id
    ELSE <<"ip", ":">> \o get_client_ip(c)

\* _check_rate_limit: f"rate_limit:{client_id}:{request.url.path}"
rate_limit_key(client_id, path) == <<"rate_limit", ":">> \o client_id \o <<":">> \o path

UserIdTexts == {<<>>, <<"u">>}
ForwardedFors ==
    {{}, {<<>>}, {<<"a">>}, {<<" ", "a", " ", ",", "b">>}, {<<"a", ":", "/", "x">>}}
RealIps == {{}, {<<"b">>}}
Peers == {{}, {<<"c">>}}
PathTexts == {<<"/", "y">>, <<"/", "x", ":", "/", "y">>}

Contexts ==
    [user_id : UserIdTexts, forwarded_for : ForwardedFors, real_ip : RealIps,
     peer : Peers, path : PathTexts]

\* two requests and the counter each of them is counted on
ClientKeyCall ==
    /\ last = NoResult
    /\ \E a \in Contexts, b \in Contexts :
         last' = [fn |-> "key", a |-> a, b |-> b,
                  client_a |-> get_client_id(a), client_b |-> get_client_id(b),
                  key_a |-> rate_limit_key(get_client_id(a), a.path),
                  key_b |-> rate_limit_key(get_client_id(b), b.path)]
    /\ UNCHANGED <<now, store, req, issued, arrivals, outage, calls, resources>>

\* needle in text
InText(needle, text) ==
    \E i \in 1..(Len(text) - Len(needle) + 1) : SubSeq(text, i, i + Len(needle) - 1) = needle

\* _get_limits_for_path on the text of the path: the limit
get_limits_for_path(path, method) ==
    IF method \in {"POST", "PUT", "DELETE"}
    THEN IF InText(<<"/", "markets", "/", "create">>, path) THEN MarketCreateLimit
         ELSE IF InText(<<"/", "stakes", "/", "create">>, path) THEN StakeCreateLimit
         ELSE IF InText(<<"/", "auth", "/">>, path) THEN AuthLimit
         ELSE RequestsPerMinute \div 2
    ELSE IF method = "GET"
    THEN IF InText(<<"/", "markets", "/">>, path) THEN RequestsPerMinute * 2
         ELSE RequestsPerMinute
    ELSE RequestsPerMinute

\* _check_rate_limit for two requests: the counter each is counted on and
\* the limit its count is compared with
CounterCall ==
    /\ last = NoResult
    /\ \E a \in Contexts, b \in Contexts, method_a \in {"GET", "POST"}, method_b \in {"GET", "POST"} :
         last' = [fn |-> "counter", a |-> a, b |-> b,
                  method_a |-> method_a, method_b |-> method_b,
                  client_a |-> get_client_id(a), client_b |-> get_client_id(b),
                  key_a |-> rate_limit_key(get_client_id(a), a.path),
                  key_b |-> rate_limit_key(get_client_id(b), b.path),
                  limit_a |-> get_limits_for_path(a.path, method_a),
                  limit_b |-> get_limits_for_path(b.path, method_b)]
    /\ UNCHANGED <<now, store, req, issued, arrivals, outage, calls, resources>>

\* global_exception_handler on an exception.  debug is settings.debug when
\* the handler runs; app_debug is settings.debug when create_application
\* built the application.  An application built with debug on answers an
\* unhandled exception with the traceback page of its server-error
\* middleware and does not call the handler.
Exceptions ==
    {[type |-> "AttributeError", message |-> "'str' object has no attribute 'value'"],
     [type |-> "TypeError", message |-> "'HTTPException' object is not callable"],
     [type |-> "HTTPException", message |-> "429: Rate limit exceeded"],
     [type |-> "RuntimeError", message |-> ""]}

\* the handler showing the error whatever the mode
global_exception_handler_Verbose(debug, exc) ==
    [status_code |-> HTTP_500,
     content |-> [error |-> "Internal server error", detail |-> exc.message, type |-> exc.type]]

global_exception_handler(debug, exc) ==
    IF debug
    THEN [status_code |-> HTTP_500,
          content |-> [error |-> "Internal server error", detail |-> exc.message,
                       type |-> exc.type]]
    ELSE [status_code |-> HTTP_500,
          content |-> [error |-> "Internal server error",
                       message |-> "An unexpected error occurred"]]

HandlerReached(app_debug) == ~app_debug

ErrorCall ==
    /\ last = NoResult
    /\ \E app_debug \in BOOLEAN, debug \in BOOLEAN, exc \in Exceptions :
         last' = [fn |-> "error", app_debug |-> app_debug, debug |-> debug, exc |-> exc,
                  reached |-> HandlerReached(app_debug),
                  response |-> global_exception_handler(debug, exc)]
    /\ UNCHANGED <<now, store, req, issued, arrivals, outage, calls, resources>>

\* the keys of the three families as the store gets them, as texts
\* RedisCache._make_key: f"{self.prefix}:{key}"
make_key(key) == <<Prefix, ":">> \o key

\* _validate_token, logout_user: f"blacklist:{token}"
blacklist_key(token) == <<"blacklist", ":">> \o token

\* _validate_token, login_user, logout_user: f"user:{user_id}"
cache_key(user_id) == <<"user", ":">> \o user_id

\* tokens and subject ids, some of them spelling the start of another key
IdTexts ==
    {<<"u">>, <<"rate_limit", ":", "ip", ":", "a">>, <<"blacklist", ":", "u">>,
     <<"user", ":", "u">>}

\* the keys under which one token, one subject id and one request reach
\* the store
KeyTextsCall ==
    /\ last = NoResult
    /\ \E token \in IdTexts, user_id \in IdTexts, c \in Contexts :
         last' = [fn |-> "families",
                  blacklist |-> make_key(blacklist_key(token)),
                  user |-> make_key(cache_key(user_id)),
                  rate_limit |-> rate_limit_key(get_client_id(c), c.path)]
    /\ UNCHANGED <<now, store, req, issued, arrivals, outage, calls, resources>>

PureNext ==
    \/ GetLimitsCall
    \/ ClientKeyCall
    \/ ErrorCall
    \/ KeyTextsCall
    \/ CounterCall

PureSpec == InitFn /\ [][PureNext]_vars

\* ------------------------------------------------ the store client's life
InitLife ==
    /\ now = 0
    /\ store = [k \in {} |-> 0]
    /\ req = [r \in Reqs |-> IdleReq]
    /\ issued = {}
    /\ arrivals = 0
    /\ outage \in BOOLEAN
    /\ calls = [c \in Callers |-> NoCall]
    /\ last = NoResult
    /\ redis_client = {}
    /\ redis_pool = {}
    /\ inits = [made |-> 0, ready |-> {}]
    /\ sessions = [i \in Sessions |-> NoSession]

\* get_redis
get_redis == [raised |-> redis_client = {}, ret |-> redis_client]

\* init_redis: from_url may fail, before anything is assigned; the pool and
\* the client are assigned before the ping, which fails when the store is
\* unreachable; the except clause raises again and resets nothing.
InitRedis ==
    /\ inits.made < MaxInits
    /\ \E created \in BOOLEAN, pong \in Answers :
         LET n == inits.made + 1
         IN /\ redis_pool' = IF created THEN {n} ELSE redis_pool
            /\ redis_client' = IF created THEN {n} ELSE redis_client
            /\ inits' = [made |-> IF created THEN n ELSE inits.made,
                         ready |-> IF created /\ pong THEN {n} ELSE inits.ready]
            /\ last' = [fn |-> "init_redis", raised |-> ~(created /\ pong),
                        ret |-> {}, ready |-> inits.ready]
    /\ UNCHANGED <<now, store, req, issued, arrivals, outage, calls, sessions>>

\* close_redis: close the client and forget it, then disconnect the pool
\* and forget it; a call that raises leaves the rest undone.  The client
\* stops being ready when close_redis forgets it.
CloseRedis ==
    /\ \E closes \in BOOLEAN, disconnects \in BOOLEAN :
         LET client_done == redis_client = {} \/ closes
             pool_done == client_done /\ (redis_pool = {} \/ disconnects)
         IN /\ redis_client' = IF client_done THEN {} ELSE redis_client
            /\ redis_pool' = IF pool_done THEN {} ELSE redis_pool
            /\ inits' = [inits EXCEPT !.ready = IF client_done THEN {} ELSE @]
            /\ last' = [fn |-> "close_redis", raised |-> ~pool_done, ret |-> {},
                        ready |-> inits.ready]
    /\ UNCHANGED <<now, store, req, issued, arrivals, outage, calls, sessions>>

GetRedisCall ==
    /\ last' = [fn |-> "get_redis", raised |-> get_redis.raised, ret |-> get_redis.ret,
                ready |-> inits.ready]
    /\ UNCHANGED <<now, store, req, issued, arrivals, outage, calls, resources>>

\* RedisCache.__init__: self.client = get_redis()
RedisCacheNew ==
    /\ last' = [fn |-> "RedisCache", raised |-> get_redis.raised, ret |-> get_redis.ret,
                ready |-> inits.ready]
    /\ UNCHANGED <<now, store, req, issued, arrivals, outage, calls, resources>>

\* RateLimiter.__init__: self.client = redis_client or get_redis(); given
\* is the client passed in, {} for None.  Client 0 is one the caller made.
RateLimiterNew ==
    /\ \E given \in {{}, {0}} :
         last' = [fn |-> "RateLimiter", given |-> given,
                  raised |-> given = {} /\ get_redis.raised,
                  ret |-> IF given # {} THEN given ELSE get_redis.ret,
                  ready |-> inits.ready]
    /\ UNCHANGED <<now, store, req, issued, arrivals, outage, calls, resources>>

LifeNext ==
    \/ InitRedis
    \/ CloseRedis
    \/ GetRedisCall
    \/ RedisCacheNew
    \/ RateLimiterNew

LifeSpec == InitLife /\ [][LifeNext]_vars

\* ------------------------------------------------------ get_db on its own
\* The generator of get_db, one step per await.  log: the calls made on the
\* session; raised: the exception the caller of the dependency gets.
\* What the consumer does with the session it was yielded: it returns, or
\* it raises an Exception, or a BaseException that is no Exception
\* (asyncio.CancelledError when the request is cancelled).
Outcomes == {"return", "Exception", "BaseException"}

InitDb ==
    /\ now = 0
    /\ store = [k \in {} |-> 0]
    /\ req = [r \in Reqs |-> IdleReq]
    /\ issued = {}
    /\ arrivals = 0
    /\ outage \in BOOLEAN
    /\ calls = [c \in Callers |-> NoCall]
    /\ last = NoResult
    /\ Started

\* async with AsyncSessionLocal() as session: ... yield session
DbYield(i) ==
    /\ sessions[i].pc = "idle"
    /\ sessions' = [sessions EXCEPT ![i].pc = "yielded"]
    /\ UNCHANGED <<now, store, req, issued, arrivals, outage, calls, last,
                   redis_client, redis_pool, inits>>

\* the consumer is done with the session: except Exception takes an
\* Exception, anything else goes on to the finally clause
DbResume(i) ==
    /\ sessions[i].pc = "yielded"
    /\ \E outcome \in Outcomes :
         sessions' = [sessions EXCEPT ![i].outcome = outcome,
                        ![i].pc = IF outcome = "Exception" THEN "except" ELSE "finally"]
    /\ UNCHANGED <<now, store, req, issued, arrivals, outage, calls, last,
                   redis_client, redis_pool, inits>>

\* the except clause without its rollback
DbRollback_None(i) ==
    /\ sessions[i].pc = "except"
    /\ sessions' = [sessions EXCEPT ![i].pc = "finally"]
    /\ UNCHANGED <<now, store, req, issued, arrivals, outage, calls, last,
                   redis_client, redis_pool, inits>>

\* except Exception: await session.rollback(); raise
DbRollback(i) ==
    /\ sessions[i].pc = "except"
    /\ sessions' = [sessions EXCEPT ![i].pc = "finally", ![i].log = Append(@, "rollback")]
    /\ UNCHANGED <<now, store, req, issued, arrivals, outage, calls, last,
                   redis_client, redis_pool, inits>>

\* finally: await session.close()
DbClose(i) ==
    /\ sessions[i].pc = "finally"
    /\ sessions' = [sessions EXCEPT ![i].pc = "exit", ![i].log = Append(@, "close")]
    /\ UNCHANGED <<now, store, req, issued, arrivals, outage, calls, last,
                   redis_client, redis_pool, inits>>

\* leaving the async with block closes the session once more; the
\* exception on its way, if any, goes on to the caller
DbExit(i) ==
    /\ sessions[i].pc = "exit"
    /\ sessions' = [sessions EXCEPT ![i].pc = "done", ![i].log = Append(@, "close"),
                      ![i].raised = IF sessions[i].outcome = "return" THEN ""
                                    ELSE sessions[i].outcome]
    /\ UNCHANGED <<now, store, req, issued, arrivals, outage, calls, last,
                   redis_client, redis_pool, inits>>

DbNext ==
    \/ \E i \in Sessions : DbYield(i)
    \/ \E i \in Sessions : DbResume(i)
    \/ \E i \in Sessions : DbRollback(i)
    \/ \E i \in Sessions : DbClose(i)
    \/ \E i \in Sessions : DbExit(i)

DbSpec == InitDb /\ [][DbNext]_vars

\* ------------------------------------------------- validation on its own
\* Tokens of every make are validated against a store in which some of
\* them are on the blacklist, at any time and whether or not the store
\* answers the lookup.
Tokens == [signed : BOOLEAN, sub : {"", DemoUserId}, exp : 0..(MaxTime + 1)]

\* the tokens a logout puts on the blacklist
Revocable == {t \in Tokens : t.signed /\ t.sub # "" /\ t.exp = MaxTime + 1}
             \cup {ForgedToken}

InitTokens ==
    /\ now = 0
    /\ store = [k \in {} |-> 0]
    /\ req = [r \in Reqs |-> IdleReq]
    /\ issued = {}
    /\ arrivals = 0
    /\ outage \in BOOLEAN
    /\ calls = [c \in Callers |-> NoCall]
    /\ last = NoResult
    /\ Started

\* logout_user: cache.set(blacklist:<token>, True, expire)
BlacklistCall ==
    /\ \E t \in Revocable, up \in Answers :
         store' = CacheSet(BlacklistKey(t), TRUE, AccessTokenSeconds, up)
    /\ UNCHANGED <<now, req, issued, arrivals, outage, calls, last, resources>>

\* _validate_token up to the identity lookup
ValidateCall ==
    /\ \E t \in Tokens, up \in Answers :
         last' = [fn |-> "validate", token |-> t, up |-> up, at |-> now,
                  blacklisted |-> Live(MakeKey(BlacklistKey(t))),
                  rejected |-> TokenRejected(t, up),
                  steps |-> ValidateSteps(t, up)]
    /\ UNCHANGED <<now, store, req, issued, arrivals, outage, calls, resources>>

\* the payloads of tokens that passed the checks above: one from login, one
\* with a role and no email, one with the sub claim alone
Payloads ==
    {[sub |-> DemoUserId, email |-> DemoEmail, role |-> "user", is_verified |-> TRUE],
     [sub |-> DemoUserId, role |-> "admin", is_verified |-> FALSE],
     [sub |-> "other-user-id"]}

\* login_user: cache.set(user:<id>, user_data, 300)
LoginCacheCall ==
    /\ \E up \in Answers :
         store' = CacheSet(UserKey(LoginUserData.id), LoginUserData, UserCacheSeconds, up)
    /\ UNCHANGED <<now, req, issued, arrivals, outage, calls, last, resources>>

\* the keys whose entry differs between the store and after
KeysChanged(after) ==
    {k \in DOMAIN store \cup DOMAIN after :
        \/ k \notin DOMAIN store
        \/ k \notin DOMAIN after
        \/ store[k] # after[k]}

\* _validate_token: cache.get(user:<sub>).  held: the store has the entry;
\* user_data: what the lookup returned.
ResolveGet ==
    /\ \E payload \in Payloads, up \in Answers :
         LET user_data == CacheGet(UserKey(payload.sub), up)
         IN last' = [fn |-> "resolve", pc |-> IF user_data # {} THEN "done" ELSE "got",
                     payload |-> payload, at |-> now,
                     held |-> IF Live(MakeKey(UserKey(payload.sub)))
                              THEN {store[MakeKey(UserKey(payload.sub))].val} ELSE {},
                     user_data |-> user_data, set |-> FALSE, changed |-> {}, entry |-> {}]
    /\ UNCHANGED <<now, store, req, issued, arrivals, outage, calls, resources>>

\* _validate_token: the identity is made and cache.set(user:<sub>, it, 300)
ResolveSet ==
    /\ last.fn = "resolve"
    /\ last.pc = "got"
    /\ \E up \in Answers :
         LET user_data == SynthFromPayload(last.payload)
             k == MakeKey(UserKey(last.payload.sub))
             after == CacheSet(UserKey(last.payload.sub), user_data, UserCacheSeconds, up)
         IN /\ store' = after
            /\ last' = [last EXCEPT !.pc = "done", !.user_data = {user_data}, !.set = TRUE,
                          !.at = now,
                          !.changed = KeysChanged(after),
                          !.entry = IF up THEN {after[k]} ELSE {}]
    /\ UNCHANGED <<now, req, issued, arrivals, outage, calls, resources>>

TokenNext ==
    \/ BlacklistCall
    \/ ValidateCall
    \/ LoginCacheCall
    \/ ResolveGet
    \/ ResolveSet
    \/ Tick

TokenSpec == InitTokens /\ [][TokenNext]_vars

\* ------------------------------------- is_allowed with a window of two ticks
\* is_allowed is called with a window of two clock ticks, so that calls fall
\* at the start, in the middle and after the end of a window.  lives keeps,
\* for each key, the account of its counter since the call that created
\* it: born, the tick of that call; limit, the limit it was called with;
\* allowed, the calls answered allowed since; healthy, no call on the key
\* failed since; sameLimit, every call since used that limit.
LongWindow == 2 * WindowSeconds

NoLife == [born |-> 0, limit |-> 0, allowed |-> 0, hits |-> 0, healthy |-> TRUE,
           sameLimit |-> TRUE]

InitWindow ==
    /\ now = 0
    /\ store = [k \in {} |-> 0]
    /\ req = [r \in Reqs |-> IdleReq]
    /\ issued = {}
    /\ arrivals = 0
    /\ outage \in BOOLEAN
    /\ calls = [c \in Callers |-> NoCall]
    /\ last = [fn |-> "hit", n |-> 0, lives |-> [k \in LimiterKeys |-> NoLife]]
    /\ Started

\* one call of is_allowed at the current tick
HitCall ==
    /\ last.n < MaxHits
    /\ \E key \in LimiterKeys, limit \in Limits, up \in Answers :
         LET res == IsAllowed(key, limit, LongWindow, up)
             old == last.lives[key]
             fresh == ~Live(key)
             life == IF up /\ fresh
                     THEN [born |-> now, limit |-> limit, allowed |-> 1, hits |-> 1,
                           healthy |-> TRUE, sameLimit |-> TRUE]
                     ELSE IF fresh THEN old
                     ELSE [old EXCEPT !.allowed = @ + (IF res.allowed THEN 1 ELSE 0),
                                      !.hits = @ + (IF up THEN 1 ELSE 0),
                                      !.healthy = @ /\ up,
                                      !.sameLimit = @ /\ limit = old.limit]
         IN /\ store' = res.store
            /\ last' = [fn |-> "hit", n |-> last.n + 1, key |-> {key}, limit |-> limit,
                        up |-> up, at |-> now, fresh |-> fresh, allowed |-> res.allowed,
                        lives |-> [last.lives EXCEPT ![key] = life]]
    /\ UNCHANGED <<now, req, issued, arrivals, outage, calls, resources>>

\* Time passes, up to the horizon of these runs
LongTick ==
    /\ now < Horizon
    /\ now' = now + 1
    /\ store' = [k \in {x \in DOMAIN store : store[x].exp > now + 1} |-> store[k]]
    /\ UNCHANGED <<req, issued, arrivals, outage, calls, last, resources>>

WindowNext ==
    \/ HitCall
    \/ LongTick

WindowSpec == InitWindow /\ [][WindowNext]_vars

\* ------------------------------------------------------------------ claims
ExemptEverywhere == {P_Health, P_HealthDetailed, P_Metrics}
Mutating == {"POST", "PUT", "DELETE"}
Stage(q) == q.trace[Len(q.trace)]
Position(stage, order) == CHOOSE i \in 1..Len(order) : order[i] = stage

\* the request presents a token that login issued and that has not expired
PresentsIssuedToken(q) ==
    /\ q.hdr.scheme = "bearer"
    /\ q.hdr.token \in issued
    /\ now < q.hdr.token.exp

\* the request carries no token that validation could accept
NoValidToken(q) ==
    \/ ExtractToken(q.hdr) = {}
    \/ ~q.hdr.token.signed
    \/ q.hdr.token.exp <= now

\* C1: blacklist supremacy.  A validation of token T that starts while a
\* blacklist entry for T exists in the store rejects T: the authentication
\* stage turns the request down and attaches no identity, whether or not the
\* store answers the lookup.
C1_BlacklistSupremacy ==
    \A r \in Reqs :
        (req[r].blacklisted /\ req[r].pc # "auth_exists")
            => (req[r].rejectedBy = "auth" /\ req[r].user = {})

\* C2: login, logout, reuse.  A logout that presents an unexpired token
\* obtained from login, not yet revoked, is answered 200; a request that
\* presents the token to an authenticated route after its revocation is
\* answered 401.
C2_LoginLogoutReuse ==
    \A r \in Reqs :
        (req[r].pc = "done" /\ PresentsIssuedToken(req[r]) /\ req[r].path \in {P_Logout, P_Me})
            => /\ (req[r].path = P_Logout /\ ~req[r].blacklisted) => req[r].status = HTTP_200
               /\ req[r].blacklisted => req[r].status = HTTP_401

\* C3: rate-limit boundary.  With a healthy store the request that observes
\* count c <= L is admitted with X-RateLimit-Remaining = L - c, and the
\* request that observes count L + 1 is answered 429.
C3_RateLimitBoundary ==
    \A r \in Reqs :
        (req[r].count > 0 /\ req[r].limit >= 1)
            => /\ req[r].count <= req[r].limit
                    => /\ req[r].rejectedBy # "rate_limit"
                       /\ req[r].remaining = req[r].limit - req[r].count
                       /\ req[r].pc = "done"
                            => req[r].headers["X-RateLimit-Remaining"]
                                 = req[r].limit - req[r].count
               /\ req[r].count > req[r].limit
                    => (req[r].pc = "done" /\ req[r].status = HTTP_429)

\* C4: fail-open rate limiting.  When the store operation of is_allowed
\* fails, is_allowed answers (true, limit) and the rate-limit stage lets the
\* request through to the next stage, whatever the counter of its key holds.
C4_FailOpen ==
    \A r \in Reqs :
        req[r].failOpen
            => /\ req[r].remaining = req[r].limit
               /\ req[r].rejectedBy = ""
               /\ \E i \in 1..Len(req[r].trace) : req[r].trace[i] = "route"

\* a store failure admits a request whose counter already stands at the limit
C4_Witness ==
    \E r \in Reqs :
        LET k == RateLimitKey(GetClientId(req[r]), req[r].path)
        IN /\ req[r].failOpen
           /\ Live(k)
           /\ store[k].val >= req[r].limit

\* C5: pipeline ordering.  The stages a request goes through are entered in
\* the order request-ID tagging, rate limiting, authentication, route.
SpecifiedOrder == <<"request_id", "rate_limit", "auth", "route">>

C5_PipelineOrder ==
    \A r \in Reqs :
        \A i, j \in 1..Len(req[r].trace) :
            i < j => Position(req[r].trace[i], SpecifiedOrder)
                        < Position(req[r].trace[j], SpecifiedOrder)

\* C6: rejection short-circuits.  A request rejected by the rate-limit stage
\* or by the authentication stage has its response at once; the rejecting
\* stage is the last stage it entered and no route handler ran for it.
C6_RejectionShortCircuits ==
    \A r \in Reqs :
        req[r].rejectedBy # ""
            => /\ req[r].pc = "done"
               /\ req[r].status # 0
               /\ Stage(req[r]) = req[r].rejectedBy
               /\ req[r].handler = ""
               /\ ~req[r].acted

\* the rate-limit stage has rejected a request
C6_Witness == \E r \in Reqs : req[r].rejectedBy = "rate_limit" /\ req[r].count > req[r].limit

\* C7: exempt-path bypass.  A request to /health, /health/detailed or
\* /metrics is rejected by no stage and is answered neither 401 nor 429.
C7_ExemptBypass ==
    \A r \in Reqs :
        req[r].path \in ExemptEverywhere
            => /\ req[r].rejectedBy = ""
               /\ req[r].status \notin {HTTP_401, HTTP_429}

\* a health check carrying a forged bearer token, after earlier requests from
\* the same client, is answered 200
C7_Witness ==
    \E r \in Reqs :
        /\ req[r].path = P_Health
        /\ req[r].hdr = Bearer(ForgedToken)
        /\ req[r].status = HTTP_200
        /\ arrivals = MaxRequests

\* C8: a request the authentication stage rejects is answered 401 with the
\* header WWW-Authenticate: Bearer.
C8_Unauthorized401 ==
    \A r \in Reqs :
        req[r].rejectedBy = "auth"
            => /\ req[r].status = HTTP_401
               /\ "WWW-Authenticate" \in DOMAIN req[r].headers
               /\ req[r].headers["WWW-Authenticate"] = "Bearer"

\* C9 as claimed: the public listing without Authorization header is never
\* answered 401; every mutating request under /api/v1/markets/ without a
\* valid token is answered 401 and its protected action is not performed.
C9_PublicListingProtectedMutation ==
    \A r \in Reqs :
        req[r].pc = "done"
            => /\ (req[r].method = "GET" /\ req[r].path = P_Markets /\ req[r].hdr = NoHeader)
                    => req[r].status # HTTP_401
               /\ (req[r].method \in Mutating /\ StartsWith(req[r].path, P_Markets)
                     /\ NoValidToken(req[r]))
                    => (req[r].status = HTTP_401 /\ ~req[r].acted)

\* C9 amended: the public listing without Authorization header is never
\* answered 401 and never rejected by the authentication stage; a mutating
\* request under /api/v1/markets/ without a valid token never has its
\* protected action performed, and is answered 401 unless the rate-limit
\* stage rejected it.
C9_Amended ==
    \A r \in Reqs :
        /\ (req[r].method = "GET" /\ req[r].path = P_Markets /\ req[r].hdr = NoHeader)
                => (req[r].status # HTTP_401 /\ req[r].rejectedBy # "auth")
        /\ (req[r].method \in Mutating /\ StartsWith(req[r].path, P_Markets)
              /\ NoValidToken(req[r]))
                => /\ ~req[r].acted
                   /\ req[r].rejectedBy # "auth"
                   /\ (req[r].pc = "done" /\ req[r].rejectedBy # "rate_limit")
                        => req[r].status = HTTP_401

\* a DELETE of a market without Authorization header has been answered 401
C9_Witness ==
    \E r \in Reqs :
        /\ req[r].pc = "done"
        /\ req[r].method = "DELETE"
        /\ req[r].path = P_MarketItem
        /\ req[r].hdr = NoHeader
        /\ req[r].status = HTTP_401

\* C10: a request that presents a correctly signed, unexpired, non-blacklisted
\* token to a route whose handler requires the current user, and that the
\* rate limiter admits, reaches the handler with an identity attached and is
\* not answered 401.
C10_ValidTokenReachesHandler ==
    \A r \in Reqs :
        (/\ req[r].pc = "done"
         /\ PresentsIssuedToken(req[r])
         /\ ~req[r].blacklisted
         /\ NeedsCurrentUser(Handler(req[r].method, req[r].path))
         /\ req[r].rejectedBy # "rate_limit")
            => /\ req[r].handler = Handler(req[r].method, req[r].path)
               /\ req[r].user # {}
               /\ req[r].status # HTTP_401

\* C11: identity subject invariant.  Whenever the authentication stage has
\* admitted a request with a token, the identity attached to the request
\* carries a subject id equal to the token's sub claim, whether it was
\* synthesized from the claims or read from user:<sub>, so that
\* get_current_user accepts it.
C11_IdentitySubject ==
    \A r \in Reqs :
        req[r].user # {}
            => /\ req[r].user_id = req[r].hdr.token.sub
               /\ GetCurrentUser(req[r]) = 0

\* the request presents a correctly signed token that has not expired
PresentsValidToken(q) ==
    /\ ExtractToken(q.hdr) # {}
    /\ q.hdr.token.signed
    /\ q.hdr.token.sub # ""
    /\ now < q.hdr.token.exp

\* C15: cache outage never fails a request.  While the store is unreachable,
\* a request presenting a correctly signed, unexpired token to a protected
\* path is admitted by the authentication stage with the identity synthesized
\* from the token's claims; the rate-limit stage rejects nothing; and a
\* request answered with an error status either presented no valid token,
\* or was refused by its route for want of an identity on a path the
\* authenticator exempts or for bad credentials, or failed in the profile
\* handler.
C15_OutageNeverFails ==
    \A r \in Reqs :
        outage
            => /\ req[r].rejectedBy # "rate_limit"
               /\ (PresentsValidToken(req[r]) /\ ~AuthIsExemptPath(req[r].path)
                     /\ req[r].pc \notin {"idle", "auth_exists"})
                    => /\ req[r].rejectedBy # "auth"
                       /\ req[r].pc \notin {"auth_get", "auth_set"}
                            => /\ req[r].user = {SynthIdentity(req[r].hdr.token)}
                               /\ req[r].user_id = req[r].hdr.token.sub
               /\ (req[r].pc = "done" /\ req[r].status >= 400)
                    => \/ ~PresentsValidToken(req[r]) /\ ~AuthIsExemptPath(req[r].path)
                       \/ AuthIsExemptPath(req[r].path) /\ req[r].status = HTTP_401
                       \/ req[r].handler = "get_current_user_profile"

\* with the store unreachable a logout presenting a login token is served
C15_Witness ==
    \E r \in Reqs :
        /\ outage
        /\ req[r].pc = "done"
        /\ req[r].path = P_Logout
        /\ PresentsIssuedToken(req[r])
        /\ req[r].user = {SynthIdentity(req[r].hdr.token)}
        /\ req[r].failOpen
        /\ req[r].status = HTTP_200

\* C16: best-effort logout.  A request that reached the logout handler with
\* a current identity attempts the blacklist write for the presented token,
\* then the deletion of user:<subject id>, and is answered 200, whether or
\* not the store answers either call.
C16_BestEffortLogout ==
    \A r \in Reqs :
        req[r].handler = "logout_user"
            => LET set == <<"set", BlacklistKey(req[r].hdr.token)>>
                   del == <<"delete", UserKey(req[r].hdr.token.sub)>>
               IN /\ req[r].pc \in {"logout_set", "logout_delete", "done"}
                  /\ req[r].pc = "logout_set" => req[r].attempts = <<>>
                  /\ req[r].pc = "logout_delete" => req[r].attempts = <<set>>
                  /\ req[r].pc = "done"
                       => /\ req[r].attempts = <<set, del>>
                          /\ req[r].status = HTTP_200
                          /\ req[r].acted

\* a logout is answered 200 although neither store call was answered
C16_Witness ==
    \E r \in Reqs :
        /\ outage
        /\ req[r].handler = "logout_user"
        /\ req[r].pc = "done"
        /\ Len(req[r].attempts) = 2
        /\ req[r].status = HTTP_200
        /\ store = [k \in {} |-> 0]

\* C17: every response to a request that the rate-limit stage checked
\* carries X-RateLimit-Limit, X-RateLimit-Remaining and X-RateLimit-Reset,
\* with X-RateLimit-Reset = 60, and with status 429 and
\* X-RateLimit-Remaining = 0 when the stage rejected the request.
C17_RateLimitHeaders ==
    \A r \in Reqs :
        (req[r].pc = "done" /\ req[r].limit >= 1)
            => /\ {"X-RateLimit-Limit", "X-RateLimit-Remaining", "X-RateLimit-Reset"}
                     \subseteq DOMAIN req[r].headers
               /\ req[r].headers["X-RateLimit-Reset"] = 60
               /\ req[r].rejectedBy = "rate_limit"
                    => /\ req[r].status = HTTP_429
                       /\ req[r].headers["X-RateLimit-Remaining"] = 0

\* the callers whose call with key k reached the store at tick t
Counted(k, t) ==
    {c \in Callers : /\ calls[c].pc = "returned"
                     /\ calls[c].key = {k}
                     /\ calls[c].up
                     /\ calls[c].at = t}

\* C12: no lost increments.  The concurrent is_allowed calls with one key
\* that reach a healthy store within one window, starting from an absent
\* counter, observe the counts 1..N, without duplicate and without gap, in
\* every order of execution, and exactly one of them observes 1.
C12_NoLostIncrements ==
    \A k \in LimiterKeys, t \in 0..MaxTime :
        /\ {calls[c].count : c \in Counted(k, t)} = 1..Cardinality(Counted(k, t))
        /\ Counted(k, t) # {}
             => Cardinality({c \in Counted(k, t) : calls[c].count = 1}) = 1

\* all callers have called with the same key in one window
C12_Witness ==
    \E k \in LimiterKeys, t \in 0..MaxTime : Counted(k, t) = Callers

\* C13: TTL expiry resets the window.  Once windowSeconds have passed since
\* the last call for a key, the store holds no counter for it, and the first
\* call of the next window observes count 1 and is allowed with
\* remaining = limit - 1, whatever count the previous window reached.
C13_ExpiryResetsWindow ==
    /\ \A k \in LimiterKeys : Live(k) => Counted(k, now) # {}
    /\ \A k \in LimiterKeys, t \in 0..MaxTime :
         \A c \in Counted(k, t) :
            (\A o \in Counted(k, t) \ {c} : calls[o].count > calls[c].count)
                => /\ calls[c].count = 1
                   /\ calls[c].limit >= 1
                        => (calls[c].allowed /\ calls[c].remaining = calls[c].limit - 1)

\* a window that reached count 2 is followed by a window whose first call
\* observes 1
C13_Witness ==
    \E k \in LimiterKeys, t \in 1..MaxTime :
        /\ \E o \in Counted(k, t - 1) : calls[o].count = 2
        /\ \E c \in Counted(k, t) : calls[c].count = 1 /\ calls[c].allowed


\* C14: none of get, set, delete, exists, increment and expire raises to its
\* caller; a call whose store operation failed returns None from get and
\* increment and False from set, delete, exists and expire, and leaves the
\* store as it was.
CacheMethods == {"get", "set", "delete", "exists", "increment", "expire"}

Writes == {"POST", "PUT", "DELETE"}
Reads == {"GET"}

\* segs occur in path one after the other, followed by more segments if rest
Occurs(path, segs, rest) ==
    \E i \in 0..(Len(path) - Len(segs)) :
        /\ \A j \in 1..Len(segs) : path[i + j] = segs[j]
        /\ rest => i + Len(segs) < Len(path)

PolicyTable ==
    << [methods |-> Writes, segs |-> <<"markets", "create">>, rest |-> FALSE, limit |-> 5],
       [methods |-> Writes, segs |-> <<"stakes", "create">>, rest |-> FALSE, limit |-> 10],
       [methods |-> Writes, segs |-> <<"auth">>, rest |-> TRUE, limit |-> 5],
       [methods |-> Writes, segs |-> <<>>, rest |-> FALSE, limit |-> RequestsPerMinute \div 2],
       [methods |-> Reads, segs |-> <<"markets">>, rest |-> TRUE, limit |-> 2 * RequestsPerMinute],
       [methods |-> Reads, segs |-> <<>>, rest |-> FALSE, limit |-> RequestsPerMinute] >>

RowMatches(row, method, path) ==
    method \in row.methods /\ Occurs(path, row.segs, row.rest)

MatchingRows(method, path) ==
    {i \in 1..Len(PolicyTable) : RowMatches(PolicyTable[i], method, path)}

FirstComma(text) ==
    IF \E i \in 1..Len(text) : text[i] = ","
    THEN CHOOSE i \in 1..Len(text) : text[i] = "," /\ \A j \in 1..(i - 1) : text[j] # ","
    ELSE Len(text) + 1

\* the first element of a comma-separated chain, without the blanks around it
FirstAddress(text) ==
    LET first == SubSeq(text, 1, FirstComma(text) - 1)
        inner == {i \in 1..Len(first) : first[i] # " "}
    IN IF inner = {} THEN <<>>
       ELSE SubSeq(first, CHOOSE i \in inner : \A j \in inner : i <= j,
                          CHOOSE i \in inner : \A j \in inner : j <= i)

Sent(header) == header # {} /\ header # {<<>>}
TextOf(header) == CHOOSE t \in header : TRUE

DerivedAsSpecified(c, client) ==
    IF c.user_id # <<>> THEN client = <<"user", ":">> \o c.user_id
    ELSE IF Sent(c.forwarded_for)
    THEN client = <<"ip", ":">> \o FirstAddress(TextOf(c.forwarded_for))
    ELSE IF Sent(c.real_ip) THEN client = <<"ip", ":">> \o TextOf(c.real_ip)
    ELSE IF c.peer # {} THEN client = <<"ip", ":">> \o TextOf(c.peer)
    ELSE client = <<"ip", ":", "unknown">>

C19_Derivation ==
    last.fn = "key" =>
        /\ DerivedAsSpecified(last.a, last.client_a)
        /\ DerivedAsSpecified(last.b, last.client_b)

C19_Derivation_Witness ==
    /\ last.fn = "key"
    /\ last.a.user_id = <<>>
    /\ last.a.forwarded_for = {<<" ", "a", " ", ",", "b">>}
    /\ last.client_a = <<"ip", ":", "a">>
    /\ last.b.user_id = <<>> /\ last.b.forwarded_for = {} /\ last.b.real_ip = {} /\ last.b.peer = {}
    /\ last.client_b = <<"ip", ":", "unknown">>

C19_ClientKey ==
    last.fn = "key" =>
        /\ DerivedAsSpecified(last.a, last.client_a)
        /\ DerivedAsSpecified(last.b, last.client_b)
        /\ last.key_a = last.key_b =>
              last.client_a = last.client_b /\ last.a.path = last.b.path


\* C20: an unhandled exception that reaches the global handler is answered
\* with status 500; the body carries the message and the type of the
\* exception only in debug mode, and in every other mode it is the fixed
\* generic content, with neither of them.
GenericContent ==
    [error |-> "Internal server error", message |-> "An unexpected error occurred"]

\* the body has the exception's message and its type among its fields
CarriesMessage(content, exc) == "detail" \in DOMAIN content /\ content.detail = exc.message
CarriesType(content, exc) == "type" \in DOMAIN content /\ content.type = exc.type

C20_ErrorBoundary ==
    (last.fn = "error" /\ last.reached) =>
        /\ last.response.status_code = 500
        /\ (CarriesMessage(last.response.content, last.exc)
               \/ CarriesType(last.response.content, last.exc)) => last.debug
        /\ last.debug => /\ CarriesMessage(last.response.content, last.exc)
                         /\ CarriesType(last.response.content, last.exc)
        /\ ~last.debug => /\ last.response.content = GenericContent
                          /\ \A f \in DOMAIN last.response.content :
                                last.response.content[f] # last.exc.type
                                /\ (last.exc.message # "" =>
                                      last.response.content[f] # last.exc.message)

\* an application built and run with debug off answers the AttributeError of
\* the profile handler
C20_Witness ==
    /\ last.fn = "error"
    /\ last.reached
    /\ ~last.app_debug
    /\ ~last.debug
    /\ last.exc.type = "AttributeError"
    /\ last.response.status_code = 500
    /\ last.response.content = GenericContent


\* C21: every key the store holds, identity, blacklist and rate-limit
\* counter alike, is <prefix>:<logical-key> with the one namespace prefix;
\* no logical key reaches the store as the caller passed it.
Namespaced(k) == "prefix" \in DOMAIN k /\ k.prefix = Prefix

C21_KeyNamespacing == \A k \in DOMAIN store : Namespaced(k)


\* C22: while the store client is not initialized (init_redis has not
\* succeeded yet, or close_redis has run since), get_redis, RedisCache() and
\* RateLimiter() without a client raise RuntimeError; from a successful
\* init_redis until close_redis, get_redis returns the client that
\* init_redis created.
NeedsClient(call) ==
    \/ call.fn \in {"get_redis", "RedisCache"}
    \/ call.fn = "RateLimiter" /\ call.given = {}

C22_ClientLifecycle ==
    (last.fn \in {"get_redis", "RedisCache", "RateLimiter"} /\ NeedsClient(last)) =>
        IF last.ready = {} THEN last.raised
        ELSE last.fn = "get_redis" => ~last.raised /\ last.ret = last.ready


\* C23: every session get_db yielded is closed when the dependency has
\* finished, whether the consumer returned or raised; when the consumer
\* raised, the session was rolled back before it was closed and the caller
\* gets the exception; when it returned, no rollback was issued.
Finished(i) == sessions[i].pc = "done"
Issued(i, call) == \E n \in 1..Len(sessions[i].log) : sessions[i].log[n] = call
RolledBackBeforeClose(i) ==
    \E n \in 1..Len(sessions[i].log) :
        /\ sessions[i].log[n] = "rollback"
        /\ \A m \in 1..(n - 1) : sessions[i].log[m] # "close"

Acceptable(call) ==
    /\ ~call.blacklisted
    /\ call.token.signed
    /\ call.token.exp # 0
    /\ call.token.exp > call.at
    /\ call.token.sub # ""

C24_TokenDecision ==
    last.fn = "validate" =>
        /\ ~last.rejected <=> Acceptable(last)
        /\ last.steps[1] = "exists"
        /\ \A n \in 1..Len(last.steps) : last.steps[n] = "decode" => n > 1

\* the same with a store that answers the blacklist lookup
C24_WhenStoreAnswers ==
    (last.fn = "validate" /\ last.up) =>
        /\ ~last.rejected <=> Acceptable(last)
        /\ last.steps[1] = "exists"
        /\ \A n \in 1..Len(last.steps) : last.steps[n] = "decode" => n > 1


\* C25: when a token with subject s has passed validation and the cache
\* holds an entry for user:<s>, the identity attached is that entry and the
\* cache is not written; when it holds none, the identity is made from the
\* token's claims (email, role or else user, verification flag or else
\* false) and written to user:<s> with a TTL of 300 seconds, and no other key
\* is written.
Resolved == last.fn = "resolve" /\ last.pc = "done"

FromClaims(payload) ==
    [user_id |-> payload.sub,
     email |-> IF "email" \in DOMAIN payload THEN payload.email ELSE "None",
     role |-> IF "role" \in DOMAIN payload THEN payload.role ELSE "user",
     is_verified |-> IF "is_verified" \in DOMAIN payload THEN payload.is_verified ELSE FALSE]

OwnKey(payload) == [prefix |-> "predictpesa", key |-> [fam |-> "user", sub |-> payload.sub]]

\* 300 seconds in clock ticks of 60 seconds
FiveMinutes == 300 \div 60

C26_TtlAtCreation ==
    \A k \in LimiterKeys :
        Live(k) => store[k].exp = last.lives[k].born + (LongWindow \div TickSeconds)


\* C27: with a healthy store, a client whose requests to a route are being
\* rejected is admitted again no later than windowSeconds after the first
\* request of the current window, even if it keeps sending requests to the
\* route in the meantime: no call is rejected windowSeconds or more after
\* the call that created the counter it was counted on.
HitKey == CHOOSE k \in last.key : TRUE

C27_RejectedRecover ==
    (last.n > 0 /\ last.up /\ ~last.allowed /\ last.lives[HitKey].healthy) =>
        last.at < last.lives[HitKey].born + (LongWindow \div TickSeconds)

\* C28: with a healthy store, for every counter key and every order of the
\* calls, the calls answered allowed between the creation of the key's
\* counter and its expiry are no more than the limit, when all of them use
\* the same limit.
C28_AdmissionBound ==
    \A k \in LimiterKeys :
        (last.lives[k].healthy /\ last.lives[k].sameLimit) =>
            last.lives[k].allowed <= last.lives[k].limit

\* a counter that has admitted as many calls as its limit and has rejected
\* one, over more than one tick, while the other key was called as well
C28_Witness ==
    \E k \in LimiterKeys :
        /\ last.lives[k].healthy /\ last.lives[k].sameLimit
        /\ last.lives[k].limit = RequestsPerMinute
        /\ last.lives[k].allowed = last.lives[k].limit
        /\ last.lives[k].hits > last.lives[k].limit
        /\ last.n > 0 /\ HitKey = k /\ last.at > last.lives[k].born
        /\ ~last.allowed /\ ~outage


\* C29: a request to /health, /health/detailed or /metrics, whatever its
\* headers, creates or increments no counter, refreshes no TTL and reads or
\* writes no identity or blacklist entry: it is answered in the step in
\* which it arrives and is never at one of the pipeline's store calls.
StoreCalls ==
    {"auth_exists", "auth_get", "auth_set", "rate_limit", "login_set", "logout_set",
     "logout_delete"}

C29_ExemptUntouched ==
    \A r \in Reqs :
        (req[r].pc # "idle" /\ req[r].path \in ExemptEverywhere) =>
            /\ req[r].pc \notin StoreCalls
            /\ req[r].pc = "done"
            /\ req[r].count = 0 /\ req[r].limit = 0 /\ ~req[r].failOpen
            /\ ~req[r].blacklisted /\ req[r].user = {}
            /\ req[r].attempts = <<>>

\* the first request is a health check with a bearer token: it is answered
\* and the store is still empty
C29_Witness ==
    /\ arrivals = 1
    /\ DOMAIN store = {}
    /\ \E r \in Reqs :
         /\ req[r].path = P_Health
         /\ req[r].hdr = Bearer(ForgedToken)
         /\ req[r].pc = "done"
         /\ req[r].trace = <<"auth", "rate_limit", "request_id", "route">>


\* C30: the rate limiter creates and changes rate-limit counters only;
\* identity keys and blacklist keys are created, changed or deleted only by
\* token validation, login and logout; the three families of keys are
\* disjoint, so no component changes an entry of another.  In every step
\* other than the passing of time, a key whose entry changes belongs to the
\* family of a component that is at one of its store calls, and the keys
\* that change in one step are of one family.
FamilyOf(k) == IF "prefix" \in DOMAIN k THEN k.key.fam ELSE k.fam

ChangedKeys ==
    {k \in DOMAIN store \cup DOMAIN store' :
        \/ k \notin DOMAIN store
        \/ k \notin DOMAIN store'
        \/ store[k] # store'[k]}

AtCall(pcs) == \E r \in Reqs : req[r].pc \in pcs

OwnedStep ==
    now' = now =>
        /\ \A k \in ChangedKeys :
              /\ FamilyOf(k) \in {"rate_limit", "user", "blacklist"}
              /\ FamilyOf(k) = "rate_limit" => AtCall({"rate_limit"})
              /\ FamilyOf(k) = "user" => AtCall({"auth_set", "login_set", "logout_delete"})
              /\ FamilyOf(k) = "blacklist" => AtCall({"logout_set"})
        /\ \A k1, k2 \in ChangedKeys : FamilyOf(k1) = FamilyOf(k2)

C30_KeyOwnership == [][OwnedStep]_vars

\* the store holds a counter, an identity and a blacklist entry at once
C30_Witness ==
    /\ \E k \in DOMAIN store : FamilyOf(k) = "rate_limit"
    /\ \E k \in DOMAIN store : FamilyOf(k) = "user"
    /\ \E k \in DOMAIN store : FamilyOf(k) = "blacklist"


\* the three families are disjoint as texts as well: whatever the token, the
\* subject id, the client and the path, the blacklist key, the identity key
\* and the counter key are three different keys
C30_FamiliesDisjoint ==
    last.fn = "families" =>
        /\ last.blacklist # last.user
        /\ last.blacklist # last.rate_limit
        /\ last.user # last.rate_limit


\* ------------------------------------- RequestIDMiddleware and the log chain
\* One request after another through RequestIDMiddleware.dispatch, with the
\* log events emitted on the way.  last holds the request: hdr the
\* X-Request-ID header it came with, ctx the context of its task, state its
\* request.state.request_id, resp the response sent, logged the last event
\* that went through add_request_id.  drawn (the uuid this request drew) and
\* n (the uuids drawn so far) record what happened; the code reads neither.
HeaderName == "X-Request-ID"

\* request.headers.get(header_name): no header, an empty one, a client's id
RequestIdHeaders == {{}, {""}, {"client-a"}, {"uuid-1"}}

\* str(uuid.uuid4()), the k-th drawn
Uuid4(k) == <<"uuid-1", "uuid-2", "uuid-3", "uuid-4">>[k]

\* a context: the variables set in it, each with its value
EmptyContext == [v \in {} |-> ""]

\* ContextVar.set
ContextVarSet(ctx, var, value) == (var :> value) @@ ctx

\* ContextVar.get of a variable created with default=None: {} stands for None
ContextVarGet(ctx, var) == IF var \in DOMAIN ctx THEN {ctx[var]} ELSE {}

\* the variable the middleware module holds, and the new variable object a
\* call of ContextVar('request_id', default=None) creates: same name,
\* another variable
request_id_var == <<"ContextVar", "request_id", "request_id.py">>
NewContextVar(name) == <<"ContextVar", name, "new">>

\* _get_or_generate_request_id that always draws a new id
GetOrGenerateRequestId_Always(header, fresh) == fresh

\* RequestIDMiddleware._get_or_generate_request_id
GetOrGenerateRequestId(header, fresh) ==
    IF header # {} /\ header # {""} THEN CHOOSE id \in header : TRUE ELSE fresh

\* core.logging.add_request_id
add_request_id(ctx, event_dict) ==
    LET request_id == ContextVarGet(ctx, NewContextVar("request_id"))
    IN IF request_id # {} /\ request_id # {""}
       THEN ("request_id" :> (CHOOSE id \in request_id : TRUE)) @@ event_dict
       ELSE event_dict

EventDicts ==
    {("event" :> "Rate limit exceeded"),
     ("event" :> "User login successful") @@ ("user_id" :> DemoUserId)}

NoTrace ==
    [fn |-> "trace", pc |-> "idle", hdr |-> {}, ctx |-> EmptyContext, state |-> {},
     resp |-> [status |-> 0, headers |-> EmptyHeaders], drawn |-> {}, n |-> 0,
     logged |-> {}]

InitTrace ==
    /\ now = 0
    /\ store = [k \in {} |-> 0]
    /\ req = [r \in Reqs |-> IdleReq]
    /\ issued = {}
    /\ arrivals = 0
    /\ outage \in BOOLEAN
    /\ calls = [c \in Callers |-> NoCall]
    /\ last = NoTrace
    /\ Started

\* dispatch up to call_next
TraceDispatch ==
    /\ last.pc = "idle"
    /\ last.n < MaxUuids
    /\ \E header \in RequestIdHeaders :
         LET fresh == Uuid4(last.n + 1)
             request_id == GetOrGenerateRequestId(header, fresh)
             draws == request_id = fresh /\ header # {fresh}
         IN last' = [last EXCEPT !.pc = "handler", !.hdr = header,
                        !.ctx = ContextVarSet(@, request_id_var, request_id),
                        !.state = {request_id},
                        !.drawn = IF draws THEN {fresh} ELSE {},
                        !.n = IF draws THEN @ + 1 ELSE @]
    /\ UNCHANGED <<now, store, req, issued, arrivals, outage, calls, resources>>

\* a log event goes through the processors, in a request or outside one
TraceLog ==
    /\ last.pc \in {"idle", "handler"}
    /\ \E event_dict \in EventDicts :
         last' = [last EXCEPT !.logged =
                    {[before |-> event_dict, after |-> add_request_id(last.ctx, event_dict),
                      trace_id |-> ContextVarGet(last.ctx, request_id_var)]}]
    /\ UNCHANGED <<now, store, req, issued, arrivals, outage, calls, resources>>

\* call_next returns the router's response (a handler's own, or the one made
\* of the HTTPException it raised) and dispatch adds the header; or the
\* handler raises another exception, which leaves dispatch and is answered
\* by the handler registered for Exception
TraceReturn ==
    /\ last.pc = "handler"
    /\ \E outcome \in {"Response", "HTTPException", "Exception"} :
         last' = [last EXCEPT !.pc = "done", !.resp =
                    IF outcome = "Exception"
                    THEN [status |-> HTTP_500, headers |-> EmptyHeaders]
                    ELSE [status |-> IF outcome = "Response" THEN HTTP_200 ELSE HTTP_404,
                          headers |-> (HeaderName :> (CHOOSE id \in last.state : TRUE))]]
    /\ UNCHANGED <<now, store, req, issued, arrivals, outage, calls, resources>>

\* the task of the request ends and its context with it
TraceComplete ==
    /\ last.pc = "done"
    /\ last' = [NoTrace EXCEPT !.n = last.n]
    /\ UNCHANGED <<now, store, req, issued, arrivals, outage, calls, resources>>

TraceNext ==
    \/ TraceDispatch
    \/ TraceLog
    \/ TraceReturn
    \/ TraceComplete

TraceSpec == InitTrace /\ [][TraceNext]_vars

\* C31: a request that reached the route handler is answered with an
\* X-Request-ID header that is the client's own X-Request-ID when it sent a
\* non-empty one and an id drawn for this request otherwise, and that is the
\* id in request.state for the handler.
C31_TraceIdPropagation ==
    (last.fn = "trace" /\ last.pc = "done") =>
        /\ HeaderName \in DOMAIN last.resp.headers
        /\ {last.resp.headers[HeaderName]} = last.state
        /\ IF last.hdr # {} /\ last.hdr # {""}
           THEN {last.resp.headers[HeaderName]} = last.hdr
           ELSE {last.resp.headers[HeaderName]} = last.drawn

\* the same for the requests whose handler returned or raised an
\* HTTPException
C31_WhenRouterAnswers ==
    (last.fn = "trace" /\ last.pc = "done" /\ last.resp.status # HTTP_500) =>
        /\ HeaderName \in DOMAIN last.resp.headers
        /\ {last.resp.headers[HeaderName]} = last.state
        /\ IF last.hdr # {} /\ last.hdr # {""}
           THEN {last.resp.headers[HeaderName]} = last.hdr
           ELSE {last.resp.headers[HeaderName]} = last.drawn


\* C32: every response carries the X-Request-ID header with the trace id of
\* its request, the 429 of the rate-limit stage and the 401 of the
\* authentication stage included, and a request that a stage rejected had
\* its trace id set before that stage.
C32_TraceIdOnRejections ==
    \A r \in Reqs :
        req[r].pc = "done" =>
            /\ req[r].request_id # ""
            /\ HeaderName \in DOMAIN req[r].headers
            /\ req[r].headers[HeaderName] = req[r].request_id
            /\ req[r].rejectedBy # "" =>
                  \E i, j \in 1..Len(req[r].trace) :
                      /\ i < j
                      /\ req[r].trace[i] = "request_id"
                      /\ req[r].trace[j] = req[r].rejectedBy


\* --------------------------------------------- tokens, logout and the clock
\* Tokens are issued, used to log out and validated over a run longer than
\* their lifetime, which is two clock ticks here, so that a logout falls at
\* the start or in the middle of a token's life and a validation before or
\* after the end of the blacklist entry.  last.revoked holds the tokens
\* whose blacklist write succeeded and last.check the last validation; the
\* code reads neither.
LongLife == 2 * AccessTokenSeconds

InitRevoke ==
    /\ now = 0
    /\ store = [k \in {} |-> 0]
    /\ req = [r \in Reqs |-> IdleReq]
    /\ issued = {}
    /\ arrivals = 0
    /\ outage \in BOOLEAN
    /\ calls = [c \in Callers |-> NoCall]
    /\ last = [fn |-> "revoke", revoked |-> {}, check |-> {}]
    /\ Started

\* login_user: create_access_token(token_data, the configured lifetime)
IssueCall ==
    /\ now < Horizon
    /\ issued' = issued \cup {create_access_token(DemoUserId, now, Ticks(LongLife))}
    /\ UNCHANGED <<now, store, req, arrivals, outage, calls, last, resources>>

\* logout_user, reached with a token that _validate_token has let through:
\* cache.set(blacklist:<token>, True, the configured lifetime)
RevokeCall ==
    /\ \E t \in issued, seen \in Answers, up \in Answers :
         /\ ~TokenRejected(t, seen)
         /\ store' = CacheSet(BlacklistKey(t), TRUE, LongLife, up)
         /\ last' = [last EXCEPT !.revoked = IF up THEN @ \cup {t} ELSE @]
    /\ UNCHANGED <<now, req, issued, arrivals, outage, calls, resources>>

\* _validate_token of a token issued earlier
RevokedValidateCall ==
    /\ \E t \in issued, up \in Answers :
         last' = [last EXCEPT !.check =
                    {[token |-> t, at |-> now, up |-> up,
                      revoked |-> t \in last.revoked,
                      listed |-> Live(MakeKey(BlacklistKey(t))),
                      rejected |-> TokenRejected(t, up)]}]
    /\ UNCHANGED <<now, store, req, issued, arrivals, outage, calls, resources>>

RevokeNext ==
    \/ IssueCall
    \/ RevokeCall
    \/ RevokedValidateCall
    \/ LongTick

RevokeSpec == InitRevoke /\ [][RevokeNext]_vars

\* the blacklist entry of a revoked token is there as long as the token has
\* not expired
EntryOutlivesToken ==
    \A t \in last.revoked : now < t.exp => Live(MakeKey(BlacklistKey(t)))

\* C33: the blacklist entry that logout wrote does not expire before the
\* token does, and a token whose blacklist write succeeded is rejected by
\* every later validation, also once the entry has expired.
C33_RevocationOutlivesToken ==
    last.fn = "revoke" =>
        /\ EntryOutlivesToken
        /\ \A c \in last.check : c.revoked => c.rejected

\* the same for the validations whose blacklist lookup the store answered
C33_WhenStoreAnswers ==
    last.fn = "revoke" =>
        /\ EntryOutlivesToken
        /\ \A c \in last.check : (c.revoked /\ c.up) => c.rejected

\* a revoked token is validated after its blacklist entry has expired
C33_AfterExpiry ==
    \E c \in last.check : c.revoked /\ ~c.listed /\ c.up


\* C34: a log event that goes through add_request_id while the trace id of
\* a request is set comes out with the key request_id holding that id, and
\* comes out unchanged when no trace id is set.
C34_LogCorrelation ==
    last.fn = "trace" =>
        \A e \in last.logged :
            IF e.trace_id # {}
            THEN /\ "request_id" \in DOMAIN e.after
                 /\ {e.after["request_id"]} = e.trace_id
            ELSE e.after = e.before

\* whatever the context holds, the event comes out as it went in
C34_NeverAdded ==
    last.fn = "trace" => \A e \in last.logged : e.after = e.before


\* the limit of a method's class on a path that no row of the policy table
\* names
ClassLimit(method) ==
    IF method \in Mutating THEN RequestsPerMinute \div 2 ELSE RequestsPerMinute

\* C35: two requests of one client to one path are counted on one counter
\* whatever their methods, each compared with the limit of its own method's
\* class; two requests with different paths or different client keys are
\* never counted on the same counter.
C35_OneCounterAcrossMethods ==
    last.fn = "counter" =>
        /\ (last.client_a = last.client_b /\ last.a.path = last.b.path)
              => last.key_a = last.key_b
        /\ last.limit_a = ClassLimit(last.method_a)
        /\ last.limit_b = ClassLimit(last.method_b)
        /\ (last.client_a # last.client_b \/ last.a.path # last.b.path)
              => last.key_a # last.key_b

\* the first two sentences on their own
C35_SharedAcrossMethods ==
    last.fn = "counter" =>
        /\ (last.client_a = last.client_b /\ last.a.path = last.b.path)
              => last.key_a = last.key_b
        /\ last.limit_a = ClassLimit(last.method_a)
        /\ last.limit_b = ClassLimit(last.method_b)

\* a GET and a POST of one client to one path, on one counter with two limits
C35_TwoMethodsOneCounter ==
    /\ last.fn = "counter"
    /\ last.method_a = "GET" /\ last.method_b = "POST"
    /\ last.client_a = last.client_b /\ last.a.path = last.b.path
    /\ last.key_a = last.key_b
    /\ last.limit_a # last.limit_b


\* C36: in a response that carries the rate-limit headers, X-RateLimit-Limit
\* is the limit the policy table gave for the request and
\* X-RateLimit-Remaining lies between 0 and X-RateLimit-Limit.
C36_HeaderConsistency ==
    \A r \in Reqs :
        (req[r].pc = "done" /\ "X-RateLimit-Limit" \in DOMAIN req[r].headers) =>
            /\ req[r].headers["X-RateLimit-Limit"] = req[r].limit
            /\ req[r].headers["X-RateLimit-Remaining"] >= 0
            /\ req[r].headers["X-RateLimit-Remaining"] <= req[r].headers["X-RateLimit-Limit"]

\* what the headers do satisfy: the remaining count lies between 0 and the
\* limit the policy table gave
C36_RemainingWithinApplied ==
    \A r \in Reqs :
        (req[r].pc = "done" /\ "X-RateLimit-Limit" \in DOMAIN req[r].headers) =>
            /\ req[r].headers["X-RateLimit-Limit"] = RequestsPerMinute
            /\ req[r].headers["X-RateLimit-Remaining"] >= 0
            /\ req[r].headers["X-RateLimit-Remaining"] <= req[r].limit


\* ------------------------------------------------- model objects on their own
\* One Transaction or one Market object in memory; its methods are called
\* while the clock runs.  last.call records the last call and what it
\* returned; the code does not read it.
TransactionStatus == {"pending", "confirmed", "failed", "cancelled"}

\* a Transaction built without a status has None there until it is flushed
NoneStatus == "None"

\* Transaction.is_confirmed
is_confirmed(tx) == tx.status = "confirmed"

\* Transaction.is_failed
is_failed(tx) == tx.status = "failed"

\* Transaction.mark_confirmed; utcnow is the reading of the clock
mark_confirmed(tx, block_number, block_hash, utcnow) ==
    [tx EXCEPT !.status = "confirmed", !.block_number = {block_number},
               !.block_hash = {block_hash}, !.confirmed_at = {utcnow}]

\* mark_failed that leaves a confirmed transaction as it is
mark_failed_KeepsConfirmed(tx, error_message) ==
    IF tx.status = "confirmed" THEN tx
    ELSE [tx EXCEPT !.status = "failed", !.error_message = {error_message}]

\* Transaction.mark_failed
mark_failed(tx, error_message) ==
    [tx EXCEPT !.status = "failed", !.error_message = {error_message}]

BlockNumbers == {1, 2}
BlockHashes == {"0xa", "0xb"}
ErrorMessages == {"", "reverted"}

NoModelCall ==
    [op |-> "none", prior |-> "", block_number |-> 0, block_hash |-> "",
     error_message |-> "", at |-> 0, raised |-> "", ret |-> {}]

NewTransactions ==
    {[fn |-> "tx",
      tx |-> [status |-> s, block_number |-> {}, block_hash |-> {}, confirmed_at |-> {},
              error_message |-> {}],
      call |-> NoModelCall] : s \in TransactionStatus \cup {NoneStatus}}

MarkConfirmedCall ==
    /\ last.fn = "tx"
    /\ \E block_number \in BlockNumbers, block_hash \in BlockHashes :
         last' = [last EXCEPT
                    !.tx = mark_confirmed(@, block_number, block_hash, now),
                    !.call = [NoModelCall EXCEPT !.op = "mark_confirmed",
                                !.prior = last.tx.status, !.block_number = block_number,
                                !.block_hash = block_hash, !.at = now]]
    /\ UNCHANGED <<now, store, req, issued, arrivals, outage, calls, resources>>

MarkFailedCall ==
    /\ last.fn = "tx"
    /\ \E error_message \in ErrorMessages :
         last' = [last EXCEPT
                    !.tx = mark_failed(@, error_message),
                    !.call = [NoModelCall EXCEPT !.op = "mark_failed",
                                !.prior = last.tx.status, !.error_message = error_message,
                                !.at = now]]
    /\ UNCHANGED <<now, store, req, issued, arrivals, outage, calls, resources>>

MarketStatus == {"draft", "active", "paused", "closed", "settled", "disputed", "cancelled"}

\* A datetime is its instant and whether it carries a time zone.  end_date
\* is a DateTime(timezone=True) column: a market built in memory has the
\* datetime it was given, a market loaded from the database an aware one.
\* datetime.utcnow() is naive.
utcnow(t) == [at |-> t, aware |-> FALSE]

\* an ordering comparison of a naive with an aware datetime raises TypeError
Comparable(a, b) == a.aware = b.aware

Returned(value) == [raised |-> "", ret |-> {value}]
Raised(exception) == [raised |-> exception, ret |-> {}]

\* Market.is_closed, the clock read at t
is_closed(m, t) ==
    IF m.status \in {"closed", "settled"} THEN Returned(TRUE)
    ELSE IF ~Comparable(utcnow(t), m.end_date) THEN Raised("TypeError")
    ELSE Returned(utcnow(t).at > m.end_date.at)

\* Market.time_remaining: is_closed reads the clock at t1, the method again
\* at t2
time_remaining(m, t1, t2) ==
    LET closed == is_closed(m, t1)
    IN IF closed.raised # "" THEN closed
       ELSE IF TRUE \in closed.ret THEN Returned(0)
       ELSE IF utcnow(t2).at >= m.end_date.at THEN Returned(0)
       ELSE Returned((m.end_date.at - utcnow(t2).at) * TickSeconds)

\* Market.can_stake
can_stake(m, t) ==
    IF m.status # "active" THEN Returned(FALSE)
    ELSE LET closed == is_closed(m, t)
         IN IF closed.raised # "" THEN closed
            ELSE IF TRUE \in closed.ret THEN Returned(FALSE)
            ELSE Returned(m.contract_address # {})

EndDates == [at : {1, 2}, aware : BOOLEAN]
ContractAddresses == {{}, {"0x123456789"}}

Markets ==
    {[fn |-> "market",
      market |-> [status |-> s, end_date |-> e, contract_address |-> c],
      call |-> NoModelCall] : s \in MarketStatus, e \in EndDates, c \in ContractAddresses}

InitModels ==
    /\ now = 0
    /\ store = [k \in {} |-> 0]
    /\ req = [r \in Reqs |-> IdleReq]
    /\ issued = {}
    /\ arrivals = 0
    /\ outage \in BOOLEAN
    /\ calls = [c \in Callers |-> NoCall]
    /\ last \in NewTransactions \cup Markets
    /\ Started

ModelCalled(op, res) ==
    [NoModelCall EXCEPT !.op = op, !.at = now, !.raised = res.raised, !.ret = res.ret]

IsClosedCall ==
    /\ last.fn = "market"
    /\ last' = [last EXCEPT !.call = ModelCalled("is_closed", is_closed(last.market, now))]
    /\ UNCHANGED <<now, store, req, issued, arrivals, outage, calls, resources>>

TimeRemainingCall ==
    /\ last.fn = "market"
    /\ \E later \in {now, now + 1} :
         last' = [last EXCEPT !.call =
                    ModelCalled("time_remaining", time_remaining(last.market, now, later))]
    /\ UNCHANGED <<now, store, req, issued, arrivals, outage, calls, resources>>

CanStakeCall ==
    /\ last.fn = "market"
    /\ last' = [last EXCEPT !.call = ModelCalled("can_stake", can_stake(last.market, now))]
    /\ UNCHANGED <<now, store, req, issued, arrivals, outage, calls, resources>>

ModelsNext ==
    \/ MarkConfirmedCall
    \/ MarkFailedCall
    \/ IsClosedCall
    \/ TimeRemainingCall
    \/ CanStakeCall
    \/ LongTick

ModelsSpec == InitModels /\ [][ModelsNext]_vars

\* C37: after mark_confirmed the status is CONFIRMED and the block number,
\* the block hash and the time of the call are recorded; after mark_failed
\* the status is FAILED and the error message is recorded; this is so
\* whatever the status was before the call, so that the status is always
\* the one the last call set; is_confirmed and is_failed are never both
\* true.
C37_StatusTransitions ==
    last.fn = "tx" =>
        /\ last.call.op = "mark_confirmed" =>
              /\ last.tx.status = "confirmed"
              /\ is_confirmed(last.tx) /\ ~is_failed(last.tx)
              /\ last.tx.block_number = {last.call.block_number}
              /\ last.tx.block_hash = {last.call.block_hash}
              /\ last.tx.confirmed_at = {last.call.at}
        /\ last.call.op = "mark_failed" =>
              /\ last.tx.status = "failed"
              /\ is_failed(last.tx) /\ ~is_confirmed(last.tx)
              /\ last.tx.error_message = {last.call.error_message}
        /\ ~(is_confirmed(last.tx) /\ is_failed(last.tx))

\* a confirmed transaction has been marked failed
C37_Witness ==
    /\ last.fn = "tx"
    /\ last.call.op = "mark_failed"
    /\ last.call.prior = "confirmed"
    /\ last.tx.status = "failed"
    /\ last.tx.block_number # {}

\* closed as the claim has it: by status, or the time after end_date
ClosedAt(m, t) == m.status \in {"closed", "settled"} \/ t > m.end_date.at

\* C38: can_stake() returns true exactly when the status is ACTIVE, the
\* market is not closed and a contract address is set; time_remaining of a
\* closed market is 0.
C38_StakeEligibility ==
    last.fn = "market" =>
        /\ last.call.op = "can_stake" =>
              /\ last.call.raised = ""
              /\ last.call.ret = {/\ last.market.status = "active"
                                  /\ ~ClosedAt(last.market, last.call.at)
                                  /\ last.market.contract_address # {}}
        /\ (last.call.op = "time_remaining" /\ ClosedAt(last.market, last.call.at)) =>
              /\ last.call.raised = ""
              /\ last.call.ret = {0}

\* the same for the markets whose end_date carries no time zone
C38_WhenNaive ==
    (last.fn = "market" /\ ~last.market.end_date.aware) =>
        /\ last.call.op = "can_stake" =>
              /\ last.call.raised = ""
              /\ last.call.ret = {/\ last.market.status = "active"
                                  /\ ~ClosedAt(last.market, last.call.at)
                                  /\ last.market.contract_address # {}}
        /\ (last.call.op = "time_remaining" /\ ClosedAt(last.market, last.call.at)) =>
              /\ last.call.raised = ""
              /\ last.call.ret = {0}

\* can_stake has returned true
C38_CanStake ==
    /\ last.fn = "market"
    /\ last.call.op = "can_stake"
    /\ last.call.ret = {TRUE}

====
